---------------------------- MODULE Spec2Model ----------------------------
(***************************************************************************)
(* The sync orchestration engine of the edge hub: OptimizedSyncService     *)
(* (src/src/sync/optimized-sync.service.ts) with the content, device,      *)
(* student and activity stores it reconciles.                              *)
(*                                                                         *)
(* Time is a logical clock `now` that advances by one whenever a run is    *)
(* started; every `new Date()` of a run reads it.  The timestamp 0 stands  *)
(* for null / absent.  The free-text fields of a record (title,            *)
(* htmlContent, description, ...) are written together by one update or    *)
(* save call and are represented by the one field `title`.                 *)
(***************************************************************************)
EXTENDS Integers, Sequences, FiniteSets, TLC

(***************************** bounds **************************************)
MaxRuns == 2        \* runs that may be started (caps totalSyncs and the clock)
MaxCloudId == 3     \* remote content ids 1..MaxCloudId
MaxTitle == 2       \* content payload versions 1..MaxTitle
MaxStamp == 2       \* remote updatedAt stamps 1..MaxStamp (0 = absent)
MaxBatch == 2       \* longest content batch of a payload
MaxActivity == 1    \* activity rows that may be recorded
MaxGateId == 4      \* remote content ids of the safety-gate runs
MaxGateBatch == 3   \* longest content batch of the safety-gate runs
MaxDevice == 2      \* device codes 1..MaxDevice of the device runs
MaxRepeatedId == 2  \* remote content ids of the batches that may repeat an id
MaxStudent == 2     \* student codes 1..MaxStudent of the student runs
ConflictWindow == 2 \* the 24 hours of the conflict check, in ticks of the clock
MaxExtra == 2       \* items of the longest content batch beyond batchSize
MaxQuietRuns == 6   \* runs that may be started when every payload is empty
MaxHistoryRuns == 52      \* runs that may be started to fill the history
MaxHistoryFailures == 1   \* runs among them that may fail

(************************ program constants ********************************)
maxHistorySize == 50
batchSize == 10

Null == [null |-> TRUE]       \* a JSON null / a never-assigned reference
NoErrors == << >>

(***************************************************************************)
(* Sub-results and results.                                                *)
(***************************************************************************)
Detail(s, c, e) == [success |-> s, count |-> c, errors |-> e]

EmptyDetails ==
  [content   |-> Detail(FALSE, 0, NoErrors),
   devices   |-> Detail(FALSE, 0, NoErrors),
   students  |-> Detail(FALSE, 0, NoErrors),
   analytics |-> Detail(FALSE, 0, NoErrors)]

\* the SyncResult performSync starts from (lines 87-99)
InitialSyncResult ==
  [success |-> FALSE, synced |-> 0, errors |-> NoErrors,
   partialSync |-> FALSE, syncDetails |-> EmptyDetails]

\* what performSync returns when a run is in flight (lines 72-80): it carries
\* no syncDetails
BusyResult ==
  [success |-> FALSE, synced |-> 0, errors |-> <<"Sync already in progress">>,
   partialSync |-> FALSE]

(***************************************************************************)
(* Remote records.                                                         *)
(***************************************************************************)
CreatedAt == 1     \* the createdAt every remote content record carries

ValidContentItems ==
  [id : 1..MaxCloudId, title : 1..MaxTitle, updatedAt : 0..MaxStamp]

\* a record without id
InvalidContentItem == [id |-> 0, title |-> 1, updatedAt |-> 0]

SeqsUpTo(S, n) == UNION {[1..k -> S] : k \in 0..n}


(***************************************************************************)
(* Content Reconciler.  The store is a set of rows; cloudId 0 is a row     *)
(* without remote id, updatedAt 0 a null updatedAt.                        *)
(***************************************************************************)
ContentRow(i, c, t, u, ca) ==
  [id |-> i, cloudId |-> c, title |-> t, updatedAt |-> u, cachedAt |-> ca]

\* the generated primary key of a new row
NewContentId(store) ==
  CHOOSE i \in 1..(Cardinality(store) + 1) : \A r \in store : r.id # i

\* validateContentData (lines 802-853).  Of the fields it requires (id,
\* title, htmlContent) the records here may lack the id.
ValidateContentData(batch) ==
  LET bad == {i \in 1..Len(batch) : batch[i].id = 0}
  IN  [isValid |-> bad = {},
       errors  |-> IF bad = {} THEN NoErrors
                   ELSE <<"Content missing required field: id">>]

\* contentRepository.findOne({ where: { cloudId } })
FindByCloudId(store, cid) ==
  IF \E r \in store : r.cloudId = cid
  THEN CHOOSE r \in store : r.cloudId = cid
  ELSE Null

\* line 469: the remote updatedAt, or the time of the run when it is missing
ContentUpdatedAt(item, t) == IF item.updatedAt # 0 THEN item.updatedAt ELSE t

\* line 470: existing.updatedAt || existing.cachedAt
ExistingUpdatedAt(row) == IF row.updatedAt # 0 THEN row.updatedAt ELSE row.cachedAt

\* a guard that also takes an equal stamp for newer
IsNewerOrEqual(item, row, t) == ContentUpdatedAt(item, t) >= ExistingUpdatedAt(row)

\* line 472: the staleness guard
IsNewer(item, row, t) == ContentUpdatedAt(item, t) > ExistingUpdatedAt(row)

\* an upsert into a store without the unique constraint on cloudId
ProcessItemUnconstrained(store, seen, item, fails, t) ==
  LET existing == FindByCloudId(seen, item.id)
  IN  IF item.id = 0 \/ fails
      THEN [store |-> store, ok |-> FALSE]
      ELSE IF existing # Null
      THEN IF IsNewer(item, existing, t)
           THEN [store |-> {IF r.id = existing.id
                            THEN [r EXCEPT !.title = item.title,
                                           !.updatedAt = ContentUpdatedAt(item, t)]
                            ELSE r : r \in store},
                 ok |-> TRUE]
           ELSE [store |-> store, ok |-> TRUE]
      ELSE [store |-> store \cup
              {ContentRow(NewContentId(store), item.id, item.title,
                          IF item.updatedAt # 0 THEN item.updatedAt ELSE CreatedAt,
                          t)},
            ok |-> TRUE]

\* One item of processBatch (lines 453-531).  `seen` is the store the item's
\* findOne read, `store` the store its write goes to; `fails` says that the
\* repository throws for this item.  The result is the store and whether the
\* item counts as processed.
ProcessItem(store, seen, item, fails, t) ==
  LET existing == FindByCloudId(seen, item.id)
  IN  IF item.id = 0 \/ fails
      THEN [store |-> store, ok |-> FALSE]
      ELSE IF existing # Null
      THEN IF IsNewer(item, existing, t)
           THEN [store |-> {IF r.id = existing.id
                            THEN [r EXCEPT !.title = item.title,
                                           !.updatedAt = ContentUpdatedAt(item, t)]
                            ELSE r : r \in store},
                 ok |-> TRUE]
           ELSE [store |-> store, ok |-> TRUE]
      ELSE IF \E r \in store : r.cloudId = item.id
           \* save() of a cloudId another item of the batch has just inserted:
           \* the unique constraint rejects it
           THEN [store |-> store, ok |-> FALSE]
           ELSE [store |-> store \cup
                   {ContentRow(NewContentId(store), item.id, item.title,
                               IF item.updatedAt # 0 THEN item.updatedAt ELSE CreatedAt,
                               t)},
                 ok |-> TRUE]

\* a batch that gives up at its first item that fails
RECURSIVE ProcessFromAborting(_, _, _, _, _, _, _, _, _)
ProcessFromAborting(store, snapshot, batch, i, hi, failed, late, t, acc) ==
  IF i > hi
  THEN [store |-> store, processed |-> acc.processed, errors |-> acc.errors]
  ELSE LET r == ProcessItem(store, IF i \in late THEN store ELSE snapshot,
                            batch[i], i \in failed, t)
       IN  IF r.ok
           THEN ProcessFromAborting(r.store, snapshot, batch, i + 1, hi, failed, late, t,
                                    [processed |-> acc.processed + 1,
                                     errors    |-> acc.errors])
           ELSE [store |-> store, processed |-> acc.processed,
                 errors |-> Append(acc.errors, "Failed to process content")]

\* processBatch (lines 447-551): the items of one batch are upserted
\* concurrently.  Every findOne is issued before any write; `late` is the set
\* of items whose findOne is answered only after the writes of the items
\* before them, `failed` the items for which the repository throws.
RECURSIVE ProcessFrom(_, _, _, _, _, _, _, _, _)
ProcessFrom(store, snapshot, batch, i, hi, failed, late, t, acc) ==
  IF i > hi
  THEN [store |-> store, processed |-> acc.processed, errors |-> acc.errors]
  ELSE LET r == ProcessItem(store, IF i \in late THEN store ELSE snapshot,
                            batch[i], i \in failed, t)
       IN  ProcessFrom(r.store, snapshot, batch, i + 1, hi, failed, late, t,
                       [processed |-> acc.processed + (IF r.ok THEN 1 ELSE 0),
                        errors    |-> IF r.ok THEN acc.errors
                                      ELSE Append(acc.errors, "Failed to process content")])

\* the items lo..hi of the payload as one batch
ProcessBatch(store, batch, lo, hi, failed, late, t) ==
  ProcessFrom(store, store, batch, lo, hi, failed, late, t,
              [processed |-> 0, errors |-> NoErrors])

\* the loop of syncContent (lines 338-351): slices of batchSize items
RECURSIVE ProcessSlices(_, _, _, _, _, _, _)
ProcessSlices(store, batch, lo, failed, late, t, acc) ==
  IF lo > Len(batch)
  THEN [store |-> store, processed |-> acc.processed, errors |-> acc.errors]
  ELSE LET hi == IF lo + batchSize - 1 < Len(batch) THEN lo + batchSize - 1 ELSE Len(batch)
           r  == ProcessBatch(store, batch, lo, hi, failed, late, t)
       IN  ProcessSlices(r.store, batch, lo + batchSize, failed, late, t,
                         [processed |-> acc.processed + r.processed,
                          errors    |-> acc.errors \o r.errors])

BatchIds(batch) == {batch[i].id : i \in 1..Len(batch)}

\* a filter that forgets to ask for a cloudId
RemovedContentAnyId(store, batch) ==
  {r \in store : r.cloudId \notin BatchIds(batch)}

\* lines 941-943: the local rows the remote batch no longer lists
RemovedContent(store, batch) ==
  {r \in store : r.cloudId # 0 /\ r.cloudId \notin BatchIds(batch)}

\* line 967: the safety gate, removalPercentage > 50 && cloud < local * 0.8
SafetyCheckFailed(removed, localCount, cloudCount) ==
  /\ removed * 100 > 50 * localCount
  /\ cloudCount * 10 < localCount * 8

\* cleanupRemovedContent (lines 925-983).  `throws` says that the repository
\* throws in find() or delete(); reading updatedAt.getTime() of a removed row
\* whose updatedAt is null throws as well (line 950).
CleanupRemovedContent(store, batch, throws) ==
  LET removed == RemovedContent(store, batch)
  IN  IF Len(batch) = 0 THEN [store |-> store, threw |-> FALSE]
      ELSE IF throws THEN [store |-> store, threw |-> TRUE]
      ELSE IF removed = {} THEN [store |-> store, threw |-> FALSE]
      ELSE IF \E r \in removed : r.updatedAt = 0 THEN [store |-> store, threw |-> TRUE]
      ELSE IF SafetyCheckFailed(Cardinality(removed), Cardinality(store), Len(batch))
      THEN [store |-> store, threw |-> FALSE]
      ELSE [store |-> store \ removed, threw |-> FALSE]

ContentFaults == {"none", "count", "cleanup"}

\* syncContent (lines 314-378): the store afterwards and the sub-result
SyncContent(store, batch, fault, failed, late, t) ==
  IF Len(batch) = 0
  THEN [store |-> store, result |-> Detail(TRUE, 0, NoErrors)]
  ELSE IF ~ValidateContentData(batch).isValid
  THEN [store |-> store, result |-> Detail(FALSE, 0, ValidateContentData(batch).errors)]
  ELSE IF fault = "count"
  THEN [store |-> store, result |-> Detail(FALSE, 0, <<"exception">>)]
  ELSE LET p == ProcessSlices(store, batch, 1, failed, late, t,
                              [processed |-> 0, errors |-> NoErrors])
           c == IF p.processed > 0
                THEN CleanupRemovedContent(p.store, batch, fault = "cleanup")
                ELSE [store |-> p.store, threw |-> FALSE]
       IN  IF c.threw
           THEN [store |-> c.store, result |-> Detail(FALSE, 0, <<"exception">>)]
           ELSE [store |-> c.store,
                 result |-> Detail(p.processed > 0, p.processed, p.errors)]

(***************************************************************************)
(* Device Reconciler.  A device row is identified by its deviceCode; a     *)
(* record with deviceCode 0 carries none, with name 0 no name.             *)
(***************************************************************************)
DeviceRow(code, n, st, reg, seen, sy, ca, u) ==
  [deviceCode |-> code, name |-> n, status |-> st, registeredAt |-> reg,
   lastSeen |-> seen, synced |-> sy, cachedAt |-> ca, updatedAt |-> u]

\* validateDevicesData (lines 703-746).  Of the fields it requires (id,
\* deviceCode, hubId) the records here may lack the deviceCode.
ValidateDevicesData(batch) ==
  LET bad == {i \in 1..Len(batch) : batch[i].deviceCode = 0}
  IN  [isValid |-> bad = {},
       errors  |-> IF bad = {} THEN NoErrors
                   ELSE <<"Device missing required field: deviceCode">>]

DeviceCodes(batch) == {batch[i].deviceCode : i \in 1..Len(batch)}

\* lines 141-148 applied for every record of the batch that names the row, in
\* order: registeredAt is not assigned
RECURSIVE UpdateDevice(_, _, _, _)
UpdateDevice(row, batch, i, t) ==
  IF i > Len(batch) THEN row
  ELSE IF batch[i].deviceCode # row.deviceCode THEN UpdateDevice(row, batch, i + 1, t)
  ELSE UpdateDevice([row EXCEPT !.name = IF batch[i].name # 0 THEN batch[i].name ELSE @,
                                !.status = batch[i].status,
                                !.synced = TRUE,
                                !.updatedAt = t],
                    batch, i + 1, t)

DeviceFaults == {"none", "find", "save", "remove", "cleanup"}

\* DevicesService.syncDevicesFromCloud (part_007 lines 126-174): [store, threw].
\* Two new records with one code are two inserts of one save(): the unique
\* constraint on deviceCode rejects the save as a whole.
SyncDevicesFromCloud(store, batch, fault, t) ==
  LET existingCodes == {r.deviceCode : r \in store}
      newIdx   == {i \in 1..Len(batch) : batch[i].deviceCode \notin existingCodes}
      clash    == \E i, j \in newIdx : i # j /\ batch[i].deviceCode = batch[j].deviceCode
      updated  == {UpdateDevice(r, batch, 1, t) :
                     r \in {x \in store : x.deviceCode \in DeviceCodes(batch)}}
      created  == {DeviceRow(batch[i].deviceCode, batch[i].name, batch[i].status,
                             0, 0, TRUE, t, t) : i \in newIdx}
      kept     == {r \in store : r.deviceCode \notin DeviceCodes(batch)}
  IN  IF fault = "find" THEN [store |-> store, threw |-> TRUE]
      ELSE IF fault = "save" \/ clash THEN [store |-> store, threw |-> TRUE]
      ELSE IF fault = "remove" /\ kept # {}
      THEN [store |-> updated \cup created \cup kept, threw |-> TRUE]
      ELSE [store |-> updated \cup created, threw |-> FALSE]

\* cleanupRemovedDevices (lines 858-887) with findDevicesNotInList and
\* deactivateDevices (part_007 lines 252-280)
CleanupRemovedDevices(store, batch, fault, t) ==
  IF fault = "cleanup" THEN [store |-> store, threw |-> TRUE]
  ELSE [store |-> {IF r.deviceCode \in DeviceCodes(batch) THEN r
                   ELSE [r EXCEPT !.status = "inactive", !.updatedAt = t] : r \in store},
        threw |-> FALSE]

\* lines 866-881: the rows that findDevicesNotInList returns for the batch
\* and that were seen less than 24 hours before, which are logged as a
\* possible sync conflict
RecentlyActiveDevices(store, batch, t) ==
  {r \in store : /\ r.deviceCode \notin DeviceCodes(batch)
                 /\ r.lastSeen # 0
                 /\ t - r.lastSeen < ConflictWindow}

\* a syncDevices that hands an empty list to the reconciler as well
SyncDevicesUnguarded(store, batch, fault, t) ==
  LET a == SyncDevicesFromCloud(store, batch, fault, t)
      b == CleanupRemovedDevices(a.store, batch, fault, t)
  IN  IF a.threw
      THEN [store |-> a.store, result |-> Detail(FALSE, 0, <<"exception">>)]
      ELSE IF b.threw
      THEN [store |-> b.store, result |-> Detail(FALSE, 0, <<"exception">>)]
      ELSE [store |-> b.store, result |-> Detail(TRUE, Len(batch), NoErrors)]

\* syncDevices (lines 256-280)
SyncDevices(store, batch, fault, t) ==
  IF Len(batch) = 0
  THEN [store |-> store, result |-> Detail(TRUE, 0, NoErrors)]
  ELSE IF ~ValidateDevicesData(batch).isValid
  THEN [store |-> store, result |-> Detail(FALSE, 0, ValidateDevicesData(batch).errors)]
  ELSE LET a == SyncDevicesFromCloud(store, batch, fault, t)
           b == CleanupRemovedDevices(a.store, batch, fault, t)
       IN  IF a.threw
           THEN [store |-> a.store, result |-> Detail(FALSE, 0, <<"exception">>)]
           ELSE IF b.threw
           THEN [store |-> b.store, result |-> Detail(FALSE, 0, <<"exception">>)]
           ELSE [store |-> b.store, result |-> Detail(TRUE, Len(batch), NoErrors)]

(***************************************************************************)
(* Student Reconciler.  A student row is identified by its studentCode; a  *)
(* record with studentCode 0 carries none, with name 0 no firstName.       *)
(***************************************************************************)
StudentRow(code, n, st, sy, ca, u) ==
  [studentCode |-> code, name |-> n, status |-> st, synced |-> sy,
   cachedAt |-> ca, updatedAt |-> u]

\* validateStudentsData (lines 751-797).  Of the fields it requires (id,
\* studentCode, hubId) the records here may lack the studentCode.
ValidateStudentsData(batch) ==
  LET bad == {i \in 1..Len(batch) : batch[i].studentCode = 0}
  IN  [isValid |-> bad = {},
       errors  |-> IF bad = {} THEN NoErrors
                   ELSE <<"Student missing required field: studentCode">>]

StudentCodes(batch) == {batch[i].studentCode : i \in 1..Len(batch)}

\* upsertStudent (students.service.ts lines 181-217); a field assigned
\* undefined is left as stored by save()
UpsertStudent(store, item, t) ==
  IF \E r \in store : r.studentCode = item.studentCode
  THEN {IF r.studentCode = item.studentCode
        THEN [r EXCEPT !.name = IF item.name # 0 THEN item.name ELSE @,
                       !.status = item.status,
                       !.synced = TRUE,
                       !.updatedAt = t]
        ELSE r : r \in store}
  ELSE store \cup {StudentRow(item.studentCode, item.name, item.status, TRUE, t, t)}

RECURSIVE UpsertStudents(_, _, _, _)
UpsertStudents(store, batch, i, t) ==
  IF i > Len(batch) THEN store
  ELSE UpsertStudents(UpsertStudent(store, batch[i], t), batch, i + 1, t)

StudentFaults == {"none", "find", "cleanup"}

\* a student sync that removes the rows absent from the batch, as the
\* device sync does
SyncStudentsFromCloudRemoving(store, batch, fault, t) ==
  IF fault = "find" THEN [store |-> store, threw |-> TRUE]
  ELSE [store |-> {r \in UpsertStudents(store, batch, 1, t) :
                     r.studentCode \in StudentCodes(batch)},
        threw |-> FALSE]

\* StudentsService.syncStudents (students.service.ts lines 145-176): the rows
\* read at the start that are active and absent from the batch are saved as
\* inactive
SyncStudentsFromCloud(store, batch, fault, t) ==
  LET upserted == UpsertStudents(store, batch, 1, t)
      gone     == {r.studentCode : r \in {x \in store :
                      x.studentCode \notin StudentCodes(batch) /\ x.status = "active"}}
  IN  IF fault = "find" THEN [store |-> store, threw |-> TRUE]
      ELSE [store |-> {IF r.studentCode \in gone
                       THEN [r EXCEPT !.status = "inactive", !.synced = TRUE,
                                      !.updatedAt = t]
                       ELSE r : r \in upserted},
            threw |-> FALSE]

\* cleanupRemovedStudents (lines 892-920) with findStudentsNotInList and
\* deactivateStudents (students.service.ts lines 293-321)
CleanupRemovedStudents(store, batch, fault, t) ==
  IF fault = "cleanup" THEN [store |-> store, threw |-> TRUE]
  ELSE [store |-> {IF r.studentCode \in StudentCodes(batch) THEN r
                   ELSE [r EXCEPT !.status = "inactive", !.updatedAt = t] : r \in store},
        threw |-> FALSE]

\* lines 900-914: the rows that findStudentsNotInList returns for the batch
\* and that were updated less than 24 hours before
RecentlyActiveStudents(store, batch, t) ==
  {r \in store : /\ r.studentCode \notin StudentCodes(batch)
                 /\ t - r.updatedAt < ConflictWindow}

\* syncStudents of the orchestrator (lines 285-309)
SyncStudents(store, batch, fault, t) ==
  IF Len(batch) = 0
  THEN [store |-> store, result |-> Detail(TRUE, 0, NoErrors)]
  ELSE IF ~ValidateStudentsData(batch).isValid
  THEN [store |-> store, result |-> Detail(FALSE, 0, ValidateStudentsData(batch).errors)]
  ELSE LET a == SyncStudentsFromCloud(store, batch, fault, t)
           b == CleanupRemovedStudents(a.store, batch, fault, t)
       IN  IF a.threw
           THEN [store |-> a.store, result |-> Detail(FALSE, 0, <<"exception">>)]
           ELSE IF b.threw
           THEN [store |-> b.store, result |-> Detail(FALSE, 0, <<"exception">>)]
           ELSE [store |-> b.store, result |-> Detail(TRUE, Len(batch), NoErrors)]

(***************************************************************************)
(* Analytics Uploader.  An activity row is [id, synced].                   *)
(***************************************************************************)
\* how the upload of lines 412-435 ends: accepted and marked; a non-2xx
\* status; the 30 s abort; accepted (2xx) with a later statement throwing,
\* response.json() of line 430 or markAsSynced of line 435
PushOutcomes == {"ok", "http_error", "timeout", "mark_failed"}

\* the outcomes of the upload in which the cloud has accepted the batch
PushSucceeded == {"ok", "mark_failed"}

Unsynced(rows) == {a \in rows : ~a.synced}

\* The cloud's side of the uploads: the ids of the activity rows it has
\* accepted in a push, and of those it has accepted in a later push again.
NoDeliveries == [once |-> {}, again |-> {}]

Deliver(d, rows) ==
  LET ids == {a.id : a \in rows}
  IN  [once |-> d.once \cup ids, again |-> d.again \cup (d.once \cap ids)]

\* markAsSynced (part_004 lines 271-284)
MarkAsSynced(rows, ids) ==
  {IF a.id \in ids THEN [a EXCEPT !.synced = TRUE] ELSE a : a \in rows}

\* syncAnalyticsToCloud (lines 383-445)
SyncAnalyticsToCloud(rows, outcome) ==
  LET unsynced == Unsynced(rows)
  IN  IF unsynced = {}
      THEN [store |-> rows, result |-> Detail(TRUE, 0, NoErrors)]
      ELSE IF outcome = "ok"
      THEN [store |-> MarkAsSynced(rows, {a.id : a \in unsynced}),
            result |-> Detail(TRUE, Cardinality(unsynced), NoErrors)]
      ELSE [store |-> rows, result |-> Detail(FALSE, 0, <<"exception">>)]

(***************************************************************************)
(* The controllers.  A request is served by an async handler; between two  *)
(* awaits of one request the handlers of other requests run.               *)
(***************************************************************************)
\* requests served at a time
MaxCaller == 2

Callers == 1..MaxCaller

\* no request in flight
NoCalls == [c \in Callers |-> [at |-> "idle", found |-> Null, code |-> 0]]

\* the Map of the rate limiter without an entry
NoAttempts == [id \in {} |-> Null]

(***************************************************************************)
(* Sync Orchestrator.                                                      *)
(***************************************************************************)
VARIABLES
  syncInProgress,      \* the in-memory flag
  lastSyncTime,        \* start of the last run, 0 = null
  lastSuccessfulSync,  \* end of the last run classified Success, 0 = null
  consecutiveFailures,
  syncStats,           \* totalSyncs, successfulSyncs, failedSyncs, partialSyncs
  lastSyncResult,      \* Null or a result
  syncHistory,         \* sequence of results, oldest first
  content, devices, students, activities,   \* the four stores
  now,                 \* the clock
  pc,                  \* position of the run: idle, fetching, reconciling
  since,               \* the since parameter of the run's fetch, 0 = omitted
  syncData,            \* the payload of the run: content, devices, students
  pending,             \* sub-operations of the run that have not settled
  settled,             \* outcome of each settled sub-operation
  ret,                 \* what the last call of performSync returned
  memoryCache,         \* the Map of ContentCacheService, in insertion order
  cacheRet,            \* what the last call of getContent returned
  delivered,           \* the activity rows the cloud has accepted
  calls,               \* the position of each request of the controllers
  attempts             \* the Map of RateLimiterService

orch   == <<syncInProgress, lastSyncTime, lastSuccessfulSync, consecutiveFailures,
            syncStats, lastSyncResult, syncHistory>>
stores == <<content, devices, students, activities>>
run    == <<pc, since, syncData, pending, settled>>
cache  == <<memoryCache, cacheRet>>
edge   == <<calls, attempts>>
vars   == <<orch, stores, run, now, ret, cache, delivered, edge>>

Ops == {"devices", "students", "content", "analytics"}

\* nulls: the keys of the payload whose value is null instead of a list
NoPayload == [content |-> << >>, devices |-> << >>, students |-> << >>, nulls |-> {}]

\* getSyncStatus (lines 561-576), without the running flag and the durations
SyncStatus ==
  [lastSync |-> lastSyncTime, lastSuccessfulSync |-> lastSuccessfulSync,
   consecutiveFailures |-> consecutiveFailures,
   totalSyncs |-> syncStats.totalSyncs, successfulSyncs |-> syncStats.successfulSyncs,
   failedSyncs |-> syncStats.failedSyncs, partialSyncs |-> syncStats.partialSyncs,
   lastSyncResult |-> lastSyncResult]

\* a health check that takes a success rate of exactly 80% for low
GetHealthStatusAtMost(status) ==
  IF status.consecutiveFailures >= 5 THEN [status |-> "critical"]
  ELSE IF status.consecutiveFailures >= 2 THEN [status |-> "warning"]
  ELSE IF status.totalSyncs > 0
          /\ status.successfulSyncs * 100 <= 80 * status.totalSyncs
       THEN [status |-> "warning"]
       ELSE [status |-> "healthy"]

\* getHealthStatus (lines 607-654), without the message and the details.
\* The rate is (successfulSyncs / totalSyncs) * 100 when totalSyncs > 0 and
\* 100 otherwise; it is below 80 exactly when successfulSyncs * 100 is
\* below 80 * totalSyncs (every quotient equal to 4/5 is the same double,
\* whose product with 100 is 80).
GetHealthStatus(status) ==
  IF status.consecutiveFailures >= 5 THEN [status |-> "critical"]
  ELSE IF status.consecutiveFailures >= 2 THEN [status |-> "warning"]
  ELSE IF status.totalSyncs > 0
          /\ status.successfulSyncs * 100 < 80 * status.totalSyncs
       THEN [status |-> "warning"]
       ELSE [status |-> "healthy"]

Init ==
  /\ syncInProgress = FALSE
  /\ lastSyncTime = 0
  /\ lastSuccessfulSync = 0
  /\ consecutiveFailures = 0
  /\ syncStats = [totalSyncs |-> 0, successfulSyncs |-> 0, failedSyncs |-> 0,
                  partialSyncs |-> 0]
  /\ lastSyncResult = Null
  /\ syncHistory = << >>
  /\ content = {} /\ devices = {} /\ students = {} /\ activities = {}
  /\ now = 0
  /\ pc = "idle" /\ since = 0 /\ syncData = NoPayload
  /\ pending = {} /\ settled = [o \in {} |-> Null]
  /\ ret = Null
  /\ memoryCache = << >> /\ cacheRet = Null
  /\ delivered = NoDeliveries
  /\ calls = NoCalls /\ attempts = NoAttempts

\* a result too many is dropped at the newest end
AddToHistoryKeepOldest(history, result) ==
  LET h == Append(history, result)
  IN  IF Len(h) > maxHistorySize THEN SubSeq(h, 1, maxHistorySize) ELSE h

\* addToHistory (lines 693-698)
AddToHistory(history, result) ==
  LET h == Append(history, result)
  IN  IF Len(h) > maxHistorySize THEN Tail(h) ELSE h

\* lines 82-85 and 108-118: the run up to its fetch, the limit-th run being
\* the last that may start
StartRunWithin(limit, lastSuccess) ==
  /\ syncStats.totalSyncs < limit
  /\ syncInProgress' = TRUE
  /\ syncStats' = [syncStats EXCEPT !.totalSyncs = @ + 1]
  /\ now' = now + 1
  /\ lastSyncTime' = now + 1
  /\ lastSuccessfulSync' = lastSuccess
  /\ since' = lastSuccess
  /\ pc' = "fetching"
  /\ UNCHANGED <<cache, delivered, edge>>
  /\ UNCHANGED <<consecutiveFailures, lastSyncResult, syncHistory, stores,
                 syncData, pending, settled, ret>>

StartRun(lastSuccess) == StartRunWithin(MaxRuns, lastSuccess)

\* lines 72-80: a call while a run is in flight
ReturnBusy(lastSuccess) ==
  /\ ret' = BusyResult
  /\ lastSuccessfulSync' = lastSuccess
  /\ UNCHANGED <<cache, delivered, edge>>
  /\ UNCHANGED <<syncInProgress, lastSyncTime, consecutiveFailures, syncStats,
                 lastSyncResult, syncHistory, stores, run, now>>

\* performSync without the check of the flag
PerformSyncCallUnguarded(lastSuccess) == StartRun(lastSuccess)

\* performSync (lines 71-85)
PerformSyncCall(lastSuccess) ==
  IF syncInProgress THEN ReturnBusy(lastSuccess) ELSE StartRun(lastSuccess)

\* scheduledSync (lines 64-69)
ScheduledSync ==
  /\ ~syncInProgress
  /\ PerformSyncCall(lastSuccessfulSync)

\* scheduledSync (lines 64-69) with its own limit of runs; the flag is down,
\* so performSync starts the run
ScheduledSyncWithin(limit) ==
  /\ ~syncInProgress
  /\ StartRunWithin(limit, lastSuccessfulSync)

\* a direct call of performSync by the presentation layer
PerformSync ==
  /\ TRUE
  /\ PerformSyncCall(lastSuccessfulSync)

\* forceSyncNow (lines 553-556): the timestamp is reset, then performSync
ForceSyncNow ==
  LET reset == 0
  IN  /\ TRUE
      /\ PerformSyncCall(reset)

\* forceFullSync (lines 677-681): the same reset, then performSync
ForceFullSync ==
  LET reset == 0
  IN  /\ TRUE
      /\ PerformSyncCall(reset)

\* a finally block that leaves the flag as it is
FinallyFlagKept(result) ==
  /\ syncInProgress' = syncInProgress
  /\ lastSyncResult' = result
  /\ syncHistory' = AddToHistory(syncHistory, result)
  /\ ret' = result
  /\ pc' = "idle"
  /\ syncData' = NoPayload
  /\ pending' = {}
  /\ settled' = [o \in {} |-> Null]

\* the finally block (lines 246-250) and the return
Finally(result) ==
  /\ syncInProgress' = FALSE
  /\ lastSyncResult' = result
  /\ syncHistory' = AddToHistory(syncHistory, result)
  /\ ret' = result
  /\ pc' = "idle"
  /\ syncData' = NoPayload
  /\ pending' = {}
  /\ settled' = [o \in {} |-> Null]

\* a catch block that forgets consecutiveFailures
HardFailureUncounted(message) ==
  /\ syncStats' = [syncStats EXCEPT !.failedSyncs = @ + 1]
  /\ Finally([InitialSyncResult EXCEPT !.errors = <<message>>])
  /\ UNCHANGED <<cache, delivered, edge>>
  /\ UNCHANGED <<lastSyncTime, lastSuccessfulSync, consecutiveFailures, stores,
                 now, since>>

\* the catch block (lines 238-245)
HardFailure(message) ==
  /\ syncStats' = [syncStats EXCEPT !.failedSyncs = @ + 1]
  /\ consecutiveFailures' = consecutiveFailures + 1
  /\ Finally([InitialSyncResult EXCEPT !.errors = <<message>>])
  /\ UNCHANGED <<cache, delivered, edge>>
  /\ UNCHANGED <<lastSyncTime, lastSuccessfulSync, stores, now, since>>

\* what the fetch of lines 118-134 can end in other than an object: a non-2xx
\* status, the 45 s abort, a network error, a body that is no JSON, a body
\* that is null or a JSON primitive
FetchFailures == {"http_error", "timeout", "network", "bad_json", "non_object"}

\* line 137 reads .length of each list: a list that is null throws
HasNullList(p) == p.nulls # {}

\* lines 118-145: the response arrives
FetchResponse(payloads, failures) ==
  /\ pc = "fetching"
  /\ \/ \E f \in failures : HardFailure(f)
     \/ \E p \in payloads :
          IF HasNullList(p)
          THEN HardFailure("length of null")
          ELSE /\ syncData' = p
               /\ pc' = "reconciling"
               /\ pending' = Ops
               /\ settled' = [o \in {} |-> Null]
               /\ UNCHANGED <<cache, delivered, edge>>
               /\ UNCHANGED <<orch, stores, now, since, ret>>

\* a sub-operation returns (its own try/catch turns an exception into a
\* failed sub-result, lines 276-279, 305-308, 374-377, 441-444)
Settle(detail) == [status |-> "fulfilled", value |-> detail]

\* a fan-out that abandons the sub-operations still running when one fails
SettleOpFailFast(op, detail) ==
  IF detail.success
  THEN /\ pending' = pending \ {op}
       /\ settled' = [o \in (DOMAIN settled) \cup {op} |->
                        IF o = op THEN Settle(detail) ELSE settled[o]]
  ELSE /\ pending' = {}
       /\ settled' = [o \in {"devices", "students", "content", "analytics"} |->
                        IF o = op THEN Settle(detail)
                        ELSE IF o \in DOMAIN settled THEN settled[o]
                        ELSE Settle(Detail(FALSE, 0, <<"abandoned">>))]

SettleOp(op, detail) ==
  /\ pending' = pending \ {op}
  /\ settled' = [o \in (DOMAIN settled) \cup {op} |->
                   IF o = op THEN Settle(detail) ELSE settled[o]]

\* The four sub-operations are started in the order of lines 140-145 and
\* write disjoint stores.  StudentsReturn, ContentReturn and AnalyticsReturn
\* are the sub-operations returning at any moment of the run; the steps
\* SyncStudentsStep, SyncContentStep and SyncAnalyticsStep take them in the
\* order of the start, which reaches the same stores and outcomes with fewer
\* intermediate states.
SyncDevicesStep(faults) ==
  /\ pc = "reconciling" /\ "devices" \in pending
  /\ \E fault \in faults :
       LET r == SyncDevices(devices, syncData.devices, fault, now)
       IN  devices' = r.store /\ SettleOp("devices", r.result)
  /\ UNCHANGED <<cache, delivered, edge>>
  /\ UNCHANGED <<orch, content, students, activities, now, pc, since, syncData, ret>>

StudentsReturn(faults) ==
  /\ pc = "reconciling" /\ "students" \in pending
  /\ \E fault \in faults :
       LET r == SyncStudents(students, syncData.students, fault, now)
       IN  students' = r.store /\ SettleOp("students", r.result)
  /\ UNCHANGED <<cache, delivered, edge>>
  /\ UNCHANGED <<orch, content, devices, activities, now, pc, since, syncData, ret>>

SyncStudentsStep(faults) ==
  /\ "devices" \notin pending
  /\ StudentsReturn(faults)

ContentReturn(faults, failable, lateable) ==
  /\ pc = "reconciling" /\ "content" \in pending
  /\ \E fault \in faults :
     \E failed \in SUBSET (failable \cap 1..Len(syncData.content)) :
     \E late \in SUBSET (lateable \cap 1..Len(syncData.content)) :
       LET r == SyncContent(content, syncData.content, fault, failed, late, now)
       IN  content' = r.store /\ SettleOp("content", r.result)
  /\ UNCHANGED <<cache, delivered, edge>>
  /\ UNCHANGED <<orch, devices, students, activities, now, pc, since, syncData, ret>>

SyncContentStep(faults, failable, lateable) ==
  /\ "students" \notin pending
  /\ ContentReturn(faults, failable, lateable)

AnalyticsReturn(outcomes) ==
  /\ pc = "reconciling" /\ "analytics" \in pending
  /\ \E outcome \in outcomes :
       LET r == SyncAnalyticsToCloud(activities, outcome)
       IN  /\ activities' = r.store /\ SettleOp("analytics", r.result)
           /\ delivered' = IF outcome \in PushSucceeded
                            THEN Deliver(delivered, Unsynced(activities))
                            ELSE delivered
  /\ UNCHANGED <<cache, edge>>
  /\ UNCHANGED <<orch, content, devices, students, now, pc, since, syncData, ret>>

SyncAnalyticsStep(outcomes) ==
  /\ "content" \notin pending
  /\ AnalyticsReturn(outcomes)

\* lines 150-203 for one sub-operation
Absorb(res, op, outcome, counts) ==
  IF outcome.status = "fulfilled"
  THEN [res EXCEPT !.syncDetails[op] = outcome.value,
                   !.synced = IF counts THEN @ + outcome.value.count ELSE @]
  ELSE [res EXCEPT !.syncDetails[op] = Detail(FALSE, 0, <<outcome.reason>>),
                   !.errors = Append(@, outcome.reason),
                   !.partialSync = TRUE]

\* a merge that adds the count of the upload to synced as well
MergeOutcomesAllCounted(s) ==
  Absorb(Absorb(Absorb(Absorb(InitialSyncResult,
    "devices", s["devices"], TRUE),
    "students", s["students"], TRUE),
    "content", s["content"], TRUE),
    "analytics", s["analytics"], TRUE)

\* lines 148-203: the four outcomes merged into the result
MergeOutcomes(s) ==
  Absorb(Absorb(Absorb(Absorb(InitialSyncResult,
    "devices", s["devices"], TRUE),
    "students", s["students"], TRUE),
    "content", s["content"], TRUE),
    "analytics", s["analytics"], FALSE)

\* lines 211-213
HasAnySuccess(res) ==
  \/ res.syncDetails.content.success
  \/ res.syncDetails.devices.success
  \/ res.syncDetails.students.success

\* a classification that takes a run that synced nothing for a failure
ClassifyByVolume(res) ==
  IF HasAnySuccess(res) /\ ~res.partialSync /\ res.synced > 0 THEN "success"
  ELSE IF HasAnySuccess(res) /\ res.partialSync THEN "partial"
  ELSE "failure"

\* lines 215-234: Success, Partial or Failure
Classify(res) ==
  IF HasAnySuccess(res) /\ ~res.partialSync THEN "success"
  ELSE IF HasAnySuccess(res) /\ res.partialSync THEN "partial"
  ELSE "failure"

\* lines 148-236 and the finally block: all four outcomes are in
CompleteRun ==
  /\ pc = "reconciling" /\ pending = {}
  /\ LET merged == MergeOutcomes(settled)
         class  == Classify(merged)
         result == [merged EXCEPT !.success = (class = "success")]
     IN  /\ syncStats' =
               [syncStats EXCEPT
                  !.successfulSyncs = IF class = "success" THEN @ + 1 ELSE @,
                  !.partialSyncs    = IF class = "partial" THEN @ + 1 ELSE @,
                  !.failedSyncs     = IF class = "failure" THEN @ + 1 ELSE @]
         /\ lastSuccessfulSync' = IF class = "success" THEN now ELSE lastSuccessfulSync
         /\ consecutiveFailures' = IF class = "success" THEN 0
                                   ELSE consecutiveFailures + 1
         /\ Finally(result)
  /\ UNCHANGED <<cache, delivered, edge>>
  /\ UNCHANGED <<lastSyncTime, stores, now, since>>

\* a device or student session records an activity (part_004, HubService
\* saveActivityLog)
RecordActivity ==
  /\ pc = "idle"
  /\ Cardinality(activities) < MaxActivity
  /\ activities' = activities \cup {[id |-> Cardinality(activities) + 1, synced |-> FALSE]}
  /\ UNCHANGED <<cache, delivered, edge>>
  /\ UNCHANGED <<orch, content, devices, students, run, now, ret>>

\* DevicesService.registerDevice (part_007 lines 16-45) for a code the store
\* holds; for any other code it throws and writes nothing
RegisterDevice(code) ==
  /\ pc = "idle"
  /\ \E r \in devices : r.deviceCode = code
  /\ devices' =
       {IF r.deviceCode # code THEN r
        ELSE IF r.status = "active" /\ r.registeredAt # 0
        THEN [r EXCEPT !.lastSeen = now, !.updatedAt = now]
        ELSE [r EXCEPT !.status = "active", !.registeredAt = now,
                       !.lastSeen = now, !.updatedAt = now] : r \in devices}
  /\ UNCHANGED <<cache, delivered, edge>>
  /\ UNCHANGED <<orch, content, students, activities, run, now, ret>>

\* DevicesService.autoRegisterDevice (part_007 lines 50-74): the pending,
\* never registered row that was cached first; without one it throws
AutoRegisterDevice ==
  /\ pc = "idle"
  /\ LET available == {r \in devices : r.status = "pending" /\ r.registeredAt = 0}
         oldest == {r \in available : \A x \in available : r.cachedAt <= x.cachedAt}
     IN  \E r \in oldest :
           devices' = (devices \ {r}) \cup
                        {[r EXCEPT !.status = "active", !.registeredAt = now,
                                   !.lastSeen = now, !.updatedAt = now]}
  /\ UNCHANGED <<cache, delivered, edge>>
  /\ UNCHANGED <<orch, content, students, activities, run, now, ret>>

\* DevicesService.updateLastSeen (part_007 lines 97-102): the heartbeat of
\* a device
UpdateLastSeen(code) ==
  /\ pc = "idle"
  /\ \E r \in devices : r.deviceCode = code
  /\ devices' = {IF r.deviceCode = code
                 THEN [r EXCEPT !.lastSeen = now, !.updatedAt = now]
                 ELSE r : r \in devices}
  /\ UNCHANGED <<cache, delivered, edge>>
  /\ UNCHANGED <<orch, content, students, activities, run, now, ret>>

\* HubService.cacheContent (part_009 lines 58-83): the table is cleared,
\* then one row per record is saved; two records with one id break the
\* unique constraint and the save writes nothing
CacheContent(batch, t) ==
  IF \E i, j \in 1..Len(batch) : i # j /\ batch[i].id = batch[j].id
  THEN {}
  ELSE {ContentRow(i, batch[i].id, batch[i].title, batch[i].updatedAt, t) :
          i \in 1..Len(batch)}

\* SyncService.syncWithCloud (sync.service.ts lines 21-87), the hourly job
\* of the module the application imports: the content list it downloads is
\* handed to cacheContent.  It asks for no flag and runs at any moment.
LegacySyncWithCloud(lists) ==
  /\ \E batch \in lists : content' = CacheContent(batch, now)
  /\ UNCHANGED <<cache, delivered, edge>>
  /\ UNCHANGED <<orch, devices, students, activities, run, now, ret>>

\* The count of lines 1092-1094 asks for cloudId = {$ne: null}, an operator
\* of the MongoDB driver; the store is SQLite, where the object is bound as
\* a value that no cloudId equals, or is rejected by the driver.
IntegrityQueryOutcomes == {"no_match", "throws"}

\* checkDatabaseIntegrityOnStartup (lines 1083-1141): isHealthy and the
\* content total of stats; after an exception stats is {}
CheckDatabaseIntegrityOnStartup(store, outcome) ==
  IF outcome = "throws"
  THEN [isHealthy |-> FALSE, hasStats |-> FALSE, total |-> 0]
  ELSE LET contentCount == Cardinality(store)
           contentWithCloudId == 0
           issues == (IF contentCount = 0 THEN {"no content"} ELSE {}) \cup
                     (IF contentWithCloudId * 10 < contentCount * 9
                      THEN {"missing cloudId"} ELSE {})
       IN  [isHealthy |-> issues = {}, hasStats |-> TRUE, total |-> contentCount]

\* onApplicationBootstrap (app.module.ts lines 74-102): forceFullSync is
\* scheduled
SchedulesFullSync(check) ==
  ~check.isHealthy /\ check.hasStats /\ check.total = 0

(***************************************************************************)
(* Payloads.  The orchestrator is checked with payloads whose lists hold   *)
(* at most one record; the Content Reconciler with content batches of up   *)
(* to MaxBatch records.                                                    *)
(***************************************************************************)
OneContent == <<[id |-> 1, title |-> 1, updatedAt |-> 1]>>
OneDevice == <<[deviceCode |-> 1, name |-> 1, status |-> "pending"]>>
DeviceWithoutCode == <<[deviceCode |-> 0, name |-> 1, status |-> "pending"]>>
OneStudent == <<[studentCode |-> 1, name |-> 1, status |-> "active"]>>

StudentWithoutCode == <<[studentCode |-> 0, name |-> 1, status |-> "active"]>>

\* a payload none of whose lists passes its validation
InvalidPayload ==
  [NoPayload EXCEPT !.content = <<InvalidContentItem>>,
                    !.devices = DeviceWithoutCode,
                    !.students = StudentWithoutCode]

OrchestratorPayloads ==
  {NoPayload,
   [NoPayload EXCEPT !.content = OneContent],
   [NoPayload EXCEPT !.content = <<InvalidContentItem>>],
   [NoPayload EXCEPT !.devices = OneDevice],
   [NoPayload EXCEPT !.devices = DeviceWithoutCode],
   [NoPayload EXCEPT !.students = OneStudent],
   [NoPayload EXCEPT !.content = OneContent, !.devices = OneDevice,
                     !.students = OneStudent],
   [NoPayload EXCEPT !.nulls = {"devices"}]}

\* the batches that list every id once, in the order of the ids
ListedOnce(batch) ==
  \A i, j \in 1..Len(batch) : i < j => batch[i].id < batch[j].id

ContentPayloads ==
  [content : {b \in SeqsUpTo(ValidContentItems, MaxBatch) : ListedOnce(b)}, devices : {<< >>}, students : {<< >>}, nulls : {{}}]

\* content batches of a remote whose records never change
GatePayloads ==
  [content : {b \in SeqsUpTo([id : 1..MaxGateId, title : {1}, updatedAt : {1}],
                              MaxGateBatch) : ListedOnce(b)},
   devices : {<< >>}, students : {<< >>}, nulls : {{}}]

\* device batches that list a code at most once, in the order of the codes
DevicePayloads ==
  [content : {<< >>},
   devices : {b \in SeqsUpTo([deviceCode : 1..MaxDevice, name : {1},
                               status : {"pending", "active", "inactive"}],
                              MaxDevice) :
                \A i, j \in 1..Len(b) : i < j => b[i].deviceCode < b[j].deviceCode},
   students : {<< >>}, nulls : {{}}]

\* student batches that list a code at most once, in the order of the codes;
\* name 0 is a record without firstName
StudentPayloads ==
  [content : {<< >>}, devices : {<< >>},
   students : {b \in SeqsUpTo([studentCode : 1..MaxStudent, name : 0..MaxTitle,
                                status : {"active", "inactive"}],
                               MaxStudent) :
                 \A i, j \in 1..Len(b) : i < j => b[i].studentCode < b[j].studentCode},
   nulls : {{}}]

\* the content lists of a remote whose records never change, an id possibly
\* listed twice
UnchangingLists ==
  SeqsUpTo([id : 1..MaxBatch, title : {1}, updatedAt : {1}], MaxBatch)

UnchangingPayloads ==
  [content : UnchangingLists, devices : {<< >>}, students : {<< >>}, nulls : {{}}]

\* the first n records of an unchanging remote
FirstRecords(n) == [i \in 1..n |-> [id |-> i, title |-> 1, updatedAt |-> 1]]

\* content batches longer than one slice of batchSize items
SlicedPayloads ==
  {[NoPayload EXCEPT !.content = FirstRecords(batchSize + extra)] :
     extra \in 1..MaxExtra}

\* the items that may fail in those batches: the first and the last item of
\* the first slice and the first item of the second
SliceFailable == {1, batchSize, batchSize + 1}

\* content batches that may carry a remote id twice
RepeatingPayloads ==
  [content : SeqsUpTo([id : 1..MaxRepeatedId, title : 1..MaxTitle,
                       updatedAt : 0..MaxStamp], MaxBatch),
   devices : {<< >>}, students : {<< >>}, nulls : {{}}]

\* every entry point and every step of a run, with any fault
Next ==
  \/ ScheduledSync
  \/ PerformSync
  \/ ForceSyncNow
  \/ ForceFullSync
  \/ FetchResponse(OrchestratorPayloads, FetchFailures)
  \/ SyncDevicesStep(DeviceFaults)
  \/ SyncStudentsStep(StudentFaults)
  \/ SyncContentStep(ContentFaults, 1..MaxBatch, 1..MaxBatch)
  \/ SyncAnalyticsStep(PushOutcomes)
  \/ CompleteRun
  \/ RecordActivity

Spec == Init /\ [][Next]_vars

\* scheduled runs over every content batch, the device and student
\* repositories answering
NextContent ==
  \/ ScheduledSync
  \/ FetchResponse(ContentPayloads, {"timeout"})
  \/ SyncDevicesStep({"none"})
  \/ SyncStudentsStep({"none"})
  \/ SyncContentStep(ContentFaults, {1}, {})
  \/ SyncAnalyticsStep({"ok"})
  \/ CompleteRun

SpecContent == Init /\ [][NextContent]_vars

\* scheduled runs over the batches of an unchanging remote, the device and
\* student repositories answering
NextGate ==
  \/ ScheduledSync
  \/ FetchResponse(GatePayloads, {"timeout"})
  \/ SyncDevicesStep({"none"})
  \/ SyncStudentsStep({"none"})
  \/ SyncContentStep(ContentFaults, 1..MaxGateBatch, {})
  \/ SyncAnalyticsStep({"ok"})
  \/ CompleteRun

SpecGate == Init /\ [][NextGate]_vars

\* scheduled runs over the device batches, with devices registering between
\* the runs
NextDevices ==
  \/ ScheduledSync
  \/ FetchResponse(DevicePayloads, {"timeout"})
  \/ SyncDevicesStep(DeviceFaults)
  \/ SyncStudentsStep({"none"})
  \/ SyncContentStep({"none"}, {}, {})
  \/ SyncAnalyticsStep({"ok"})
  \/ CompleteRun
  \/ \E code \in 1..MaxDevice : RegisterDevice(code)
  \/ AutoRegisterDevice
  \/ \E code \in 1..MaxDevice : UpdateLastSeen(code)

SpecDevices == Init /\ [][NextDevices]_vars

\* scheduled runs over content batches that may repeat an id, the items of
\* a batch upserted concurrently
NextRepeating ==
  \/ ScheduledSync
  \/ FetchResponse(RepeatingPayloads, {"timeout"})
  \/ SyncDevicesStep({"none"})
  \/ SyncStudentsStep({"none"})
  \/ SyncContentStep({"none"}, {}, 1..MaxBatch)
  \/ SyncAnalyticsStep({"ok"})
  \/ CompleteRun

SpecRepeating == Init /\ [][NextRepeating]_vars

\* the payloads of the runs whose sub-operations return in any order
FanOutPayloads ==
  {NoPayload,
   [NoPayload EXCEPT !.content = OneContent, !.devices = OneDevice,
                     !.students = OneStudent],
   [NoPayload EXCEPT !.content = <<InvalidContentItem>>,
                     !.devices = DeviceWithoutCode]}

\* runs whose four sub-operations return in any order, each with any fault
NextFanOut ==
  \/ ScheduledSync
  \/ FetchResponse(FanOutPayloads, {"timeout"})
  \/ SyncDevicesStep(DeviceFaults)
  \/ StudentsReturn(StudentFaults)
  \/ ContentReturn(ContentFaults, {1}, {})
  \/ AnalyticsReturn(PushOutcomes)
  \/ CompleteRun
  \/ RecordActivity

SpecFanOut == Init /\ [][NextFanOut]_vars

\* up to MaxQuietRuns scheduled runs that receive an empty payload or no
\* response, with forceSyncNow called at any moment
NextQuiet ==
  \/ ScheduledSyncWithin(MaxQuietRuns)
  \/ ForceSyncNow
  \/ FetchResponse({NoPayload}, {"timeout"})
  \/ SyncDevicesStep({"none"})
  \/ SyncStudentsStep({"none"})
  \/ SyncContentStep({"none"}, {}, {})
  \/ SyncAnalyticsStep({"ok"})
  \/ CompleteRun

SpecQuiet == Init /\ [][NextQuiet]_vars

\* the response of a run that fails, while fewer than limit runs have failed:
\* no response, or a payload that no reconciler accepts
FetchOfFailingRun(limit) ==
  /\ syncStats.failedSyncs < limit
  /\ FetchResponse({InvalidPayload}, {"timeout"})

\* up to MaxHistoryRuns scheduled runs, of which up to MaxHistoryFailures
\* fail
NextHistory ==
  \/ ScheduledSyncWithin(MaxHistoryRuns)
  \/ FetchResponse({NoPayload}, {})
  \/ FetchOfFailingRun(MaxHistoryFailures)
  \/ SyncDevicesStep({"none"})
  \/ SyncStudentsStep({"none"})
  \/ SyncContentStep({"none"}, {}, {})
  \/ SyncAnalyticsStep({"ok"})
  \/ CompleteRun

SpecHistory == Init /\ [][NextHistory]_vars

\* Every await of a run ends: the fetch answers or is aborted after 45 s,
\* each sub-operation returns, and the merge follows the last return.  The
\* entry points are under no obligation to be called.
RunProgresses ==
  /\ WF_vars(FetchResponse(OrchestratorPayloads, FetchFailures))
  /\ WF_vars(SyncDevicesStep(DeviceFaults))
  /\ WF_vars(SyncStudentsStep(StudentFaults))
  /\ WF_vars(SyncContentStep(ContentFaults, 1..MaxBatch, 1..MaxBatch))
  /\ WF_vars(SyncAnalyticsStep(PushOutcomes))
  /\ WF_vars(CompleteRun)

SpecLive == Spec /\ RunProgresses

\* scheduled runs over the student batches, the student repository failing
\* at any call
NextStudents ==
  \/ ScheduledSync
  \/ FetchResponse(StudentPayloads, {"timeout"})
  \/ SyncDevicesStep({"none"})
  \/ SyncStudentsStep(StudentFaults)
  \/ SyncContentStep({"none"}, {}, {})
  \/ SyncAnalyticsStep({"ok"})
  \/ CompleteRun

SpecStudents == Init /\ [][NextStudents]_vars

\* the orchestrator's scheduled runs and the hourly job of SyncService, each
\* at any moment, with activity recorded between the runs
NextLegacy ==
  \/ ScheduledSync
  \/ FetchResponse(UnchangingPayloads, {"timeout"})
  \/ SyncDevicesStep({"none"})
  \/ SyncStudentsStep({"none"})
  \/ SyncContentStep({"none"}, {}, {})
  \/ SyncAnalyticsStep(PushOutcomes)
  \/ CompleteRun
  \/ RecordActivity
  \/ LegacySyncWithCloud(UnchangingLists)

SpecLegacy == Init /\ [][NextLegacy]_vars

\* scheduled runs over content batches of two slices, the repository
\* failing for any of the items of SliceFailable
NextSliced ==
  \/ ScheduledSync
  \/ FetchResponse(SlicedPayloads, {"timeout"})
  \/ SyncDevicesStep({"none"})
  \/ SyncStudentsStep({"none"})
  \/ SyncContentStep({"none"}, SliceFailable, {})
  \/ SyncAnalyticsStep({"ok"})
  \/ CompleteRun

SpecSliced == Init /\ [][NextSliced]_vars

(***************************************************************************)
(* Steps of a run, told by the variables they change.                      *)
(***************************************************************************)
\* a call of performSync, by any entry point, while a run is in flight
BusyCall == syncInProgress /\ (ScheduledSync \/ PerformSync \/ ForceSyncNow \/ ForceFullSync)

\* a manual trigger while a run is in flight
BusyManualTrigger == syncInProgress /\ (ForceSyncNow \/ ForceFullSync)

\* a run starts
RunStarts == pc = "idle" /\ pc' = "fetching"

\* the fetch of a run ends the run
RunFailsHard == pc = "fetching" /\ pc' = "idle"

\* a run that received a well-formed payload ends
RunCompletes == pc = "reconciling" /\ pc' = "idle"

\* the sub-operation op of the run returns
Settles(op) == op \in pending /\ op \notin pending'

AnySubResultSucceeded(res) == \E op \in Ops : res.syncDetails[op].success
AnySubResultFailed(res) == \E op \in Ops : ~res.syncDetails[op].success

(***************************************************************************)
(* Claims.                                                                 *)
(***************************************************************************)

\* C1: Mutual exclusion.  The flag is set exactly while a run is in flight,
\* a run starts only when none is in flight, and a performSync invoked while
\* a run is in flight returns success=false and synced=0 without incrementing
\* totalSyncs, without fetching and without adding to the history: the
\* in-flight run stays where it is and no store, counter or timestamp of
\* the orchestrator other than lastSuccessfulSync is touched.
C1_MutualExclusion ==
  [][/\ syncInProgress <=> pc # "idle"
     /\ syncStats'.totalSyncs # syncStats.totalSyncs =>
          /\ ~syncInProgress /\ RunStarts
          /\ syncStats'.totalSyncs = syncStats.totalSyncs + 1
     /\ BusyCall =>
          /\ ret'.success = FALSE /\ ret'.synced = 0
          /\ syncInProgress'
          /\ UNCHANGED <<syncStats, syncHistory, lastSyncResult, lastSyncTime,
                         consecutiveFailures, stores, run, now>>]_vars

\* C1 witness: performSync has returned the busy result while the run it
\* met is still reconciling
C1_Witness ==
  /\ syncInProgress /\ pc = "reconciling" /\ ret = BusyResult
  /\ syncStats.totalSyncs = 1

\* C2 as claimed: a forceSyncNow or forceFullSync issued while a run is in
\* flight changes nothing of what getSyncStatus shows (counters, lastSync,
\* lastSuccessfulSync, consecutiveFailures, last result) nor the history, and
\* does not alter the in-flight run.
C2_BusyTriggerIsNoOp ==
  [][BusyManualTrigger => UNCHANGED <<SyncStatus, syncHistory, run>>]_vars

\* C3 as claimed: a run that received a well-formed payload returns
\* partialSync=true and success=false whenever one of the four sub-results
\* failed.
C3_PartialSyncOnAnyFailure ==
  [][RunCompletes =>
       (AnySubResultFailed(ret') => ret'.partialSync /\ ~ret'.success)]_vars

\* C4 as claimed: a run that received a well-formed payload is Success
\* (success=true, successfulSyncs+1) if a sub-result succeeded and none
\* failed, Partial (success=false, partialSyncs+1) if one succeeded and one
\* failed, Failure (success=false, failedSyncs+1) if none succeeded, and no
\* other total moves.
C4_Classification ==
  [][RunCompletes =>
       LET class == IF ~AnySubResultSucceeded(ret') THEN "failure"
                    ELSE IF AnySubResultFailed(ret') THEN "partial"
                    ELSE "success"
       IN  /\ ret'.success = (class = "success")
           /\ syncStats' =
                 [syncStats EXCEPT
                    !.successfulSyncs = IF class = "success" THEN @ + 1 ELSE @,
                    !.partialSyncs    = IF class = "partial" THEN @ + 1 ELSE @,
                    !.failedSyncs     = IF class = "failure" THEN @ + 1 ELSE @]]_vars

\* C5 as claimed: a run in which a sub-result succeeded and none failed sets
\* consecutiveFailures to 0 and lastSuccessfulSync to the time of the run;
\* any other run, a hard fetch failure included, adds exactly 1 to
\* consecutiveFailures and leaves lastSuccessfulSync unchanged.
C5_FailureStreak ==
  [][/\ RunCompletes =>
          IF AnySubResultSucceeded(ret') /\ ~AnySubResultFailed(ret')
          THEN consecutiveFailures' = 0 /\ lastSuccessfulSync' = now
          ELSE /\ consecutiveFailures' = consecutiveFailures + 1
               /\ lastSuccessfulSync' = lastSuccessfulSync
     /\ RunFailsHard =>
          /\ consecutiveFailures' = consecutiveFailures + 1
          /\ lastSuccessfulSync' = lastSuccessfulSync]_vars

EmptyPayload ==
  syncData.content = << >> /\ syncData.devices = << >> /\ syncData.students = << >>

C8_EmptyPayload ==
  [][/\ (RunCompletes /\ EmptyPayload /\ content # {}) =>
          ret'.success = TRUE /\ ret'.synced = 0
     /\ (Settles("content") /\ EmptyPayload) => content' = content]_vars

\* C8 witness: every sub-operation of a run with the empty payload has
\* returned, and the content row of the run before is in the store
C8_Witness ==
  /\ pc = "reconciling" /\ pending = {} /\ EmptyPayload
  /\ content # {} /\ syncStats.totalSyncs = 2

\* C7 as claimed: for any local content store and any non-empty remote
\* batch, if the rows slated for removal (the local rows the batch does not
\* list) exceed 50% of the local rows while the batch is smaller than 80% of
\* the local count, the run deletes no content row.
C7_SafetyGate ==
  [][(/\ Settles("content")
      /\ Len(syncData.content) > 0
      /\ LET slated == {r \in content : r.cloudId \notin BatchIds(syncData.content)}
         IN  /\ Cardinality(slated) * 100 > 50 * Cardinality(content)
             /\ Len(syncData.content) * 10 < 8 * Cardinality(content))
     => {r.id : r \in content} \subseteq {r.id : r \in content'}]_vars

\* the stamp the stored row is compared by: updatedAt, cachedAt when null
StoredStamp(row) == IF row.updatedAt = 0 THEN row.cachedAt ELSE row.updatedAt

\* the rows of the store the item's remote id matches
Matching(item) == {r \in content : r.cloudId = item.id}

RemoteStamp(item) == IF item.updatedAt = 0 THEN now ELSE item.updatedAt

C10_Idempotence ==
  [][/\ (Settles("content") /\ settled'["content"].value.success
                            /\ settled'["content"].value.errors = NoErrors) =>
          SyncContent(content', syncData.content, "none", {}, {}, now + 1).store
            = content'
     /\ (Settles("devices") /\ settled'["devices"].value.success) =>
          SyncDevices(devices', syncData.devices, "none", now + 1).store = devices'
     /\ (Settles("students") /\ settled'["students"].value.success) =>
          SyncStudents(students', syncData.students, "none", now + 1).store
            = students']_vars

\* the device batch that lists the one code
Relisting(code) == <<[deviceCode |-> code, name |-> 1, status |-> "active"]>>

\* C11 as claimed: a sync batch, whatever it lists, leaves the registeredAt
\* of a device whose registeredAt is set unchanged, also when the batch omits
\* the device and the batch of the next run lists it again.
C11_RegisteredAtWriteOnce ==
  [][Settles("devices") =>
       \A r \in devices : r.registeredAt # 0 =>
         /\ \A x \in devices' :
              x.deviceCode = r.deviceCode => x.registeredAt = r.registeredAt
         /\ \A x \in SyncDevices(devices', Relisting(r.deviceCode), "none",
                                 now + 1).store :
              x.deviceCode = r.deviceCode => x.registeredAt = r.registeredAt]_vars

\* C12 as claimed: when the push of the unsynced activity rows succeeds,
\* every row of the batch is synced afterwards and the sub-result is
\* {success:true, count:n}; when the push fails, every row of the batch stays
\* unsynced and the sub-result is {success:false, count:0} with the error.
C12_AllOrNothing ==
  (pc = "reconciling" /\ "analytics" \in pending /\ Unsynced(activities) # {}) =>
    \A outcome \in PushOutcomes :
      LET batch == Unsynced(activities)
          r     == SyncAnalyticsToCloud(activities, outcome)
      IN  IF outcome \in PushSucceeded
          THEN /\ \A a \in batch : [a EXCEPT !.synced = TRUE] \in r.store
               /\ r.result = Detail(TRUE, Cardinality(batch), NoErrors)
          ELSE /\ r.store = activities
               /\ r.result.success = FALSE /\ r.result.count = 0
               /\ r.result.errors # NoErrors

\* C13: in every reachable state each cloudId identifies at most one content
\* row (and each primary key one row), also after a batch that carries a
\* remote id twice and whose items are upserted concurrently.
C13_CloudIdUnique ==
  \A r1, r2 \in content :
    (r1.cloudId = r2.cloudId \/ r1.id = r2.id) => r1 = r2

\* C13 witness: the content step of a run has inserted a row for a remote id
\* that its batch carries twice
C13_Witness ==
  /\ pc = "reconciling" /\ "content" \notin pending
  /\ \E i, j \in 1..Len(syncData.content) :
       /\ i < j /\ syncData.content[i].id = syncData.content[j].id
       /\ \E r \in content : r.cloudId = syncData.content[i].id /\ r.cachedAt = now

\* the batch holds a record without its required key
HasInvalidRecord(batch, key) == \E i \in 1..Len(batch) : batch[i][key] = 0

\* the sub-result of op reports a validation failure
ReportsValidationFailure(op) ==
  /\ settled'[op].status = "fulfilled"
  /\ settled'[op].value.success = FALSE /\ settled'[op].value.count = 0
  /\ settled'[op].value.errors # NoErrors

\* C14 as claimed: a batch that fails validation, by an invalid record or by
\* being null instead of a list, is not reconciled (its store is unchanged),
\* is reported as that entity's sub-result with success=false and the
\* validation errors, and does not turn the run into a hard failure: the
\* payload that carries it starts the four sub-operations like any other.
C14_ValidationFailure ==
  [][/\ \A p \in OrchestratorPayloads :
          FetchResponse({p}, {}) => pc' = "reconciling" /\ pending' = Ops
     /\ (Settles("devices") /\ HasInvalidRecord(syncData.devices, "deviceCode")) =>
          devices' = devices /\ ReportsValidationFailure("devices")
     /\ (Settles("students") /\ HasInvalidRecord(syncData.students, "studentCode")) =>
          students' = students /\ ReportsValidationFailure("students")
     /\ (Settles("content") /\ HasInvalidRecord(syncData.content, "id")) =>
          content' = content /\ ReportsValidationFailure("content")]_vars

\* the elements of a sequence
Range(seq) == {seq[k] : k \in 1..Len(seq)}

\* C15 as claimed: performSync returns a result from every run, and whenever
\* a sub-result of the run has success=false its error is present both in
\* that entity's syncDetails entry and in the errors list of the result.
C15_ErrorsFolded ==
  [][/\ (RunCompletes \/ RunFailsHard) => ret'.success \in BOOLEAN
     /\ RunCompletes =>
          \A op \in Ops : ~ret'.syncDetails[op].success =>
            /\ ret'.syncDetails[op].errors # NoErrors
            /\ Range(ret'.syncDetails[op].errors) \subseteq Range(ret'.errors)]_vars

\* C16: the synced of a run that received a well-formed payload is the sum of
\* the counts the device, student and content reconcilers reported; the count
\* of the analytics upload is in syncDetails.analytics only.
C16_SyncedIsSumOfReconcilers ==
  [][RunCompletes =>
       /\ ret'.synced = settled["devices"].value.count
                          + settled["students"].value.count
                          + settled["content"].value.count
       /\ ret'.syncDetails.analytics = settled["analytics"].value]_vars

\* C16 witness: a run has applied a device, a student and a content record
\* and has uploaded an activity row
C16_Witness ==
  /\ pc = "idle" /\ lastSyncResult # Null
  /\ lastSyncResult.synced = 3
  /\ lastSyncResult.syncDetails.analytics.count = 1

\* what a sub-operation can return, and the store it leaves, given its own
\* store and its own list of the payload
OwnOutcomes(op) ==
  CASE op = "devices" ->
         {SyncDevices(devices, syncData.devices, f, now) : f \in DeviceFaults}
    [] op = "students" ->
         {SyncStudents(students, syncData.students, f, now) : f \in StudentFaults}
    [] op = "content" ->
         {SyncContent(content, syncData.content, f[1], f[2], {}, now) :
            f \in ContentFaults \X SUBSET (1..Len(syncData.content))}
    [] op = "analytics" ->
         {SyncAnalyticsToCloud(activities, o) : o \in PushOutcomes}

\* the store a sub-operation writes
StoreOf(op) ==
  CASE op = "devices" -> devices
    [] op = "students" -> students
    [] op = "content" -> content
    [] op = "analytics" -> activities

\* the sub-operation op returns
Returns(op) ==
  CASE op = "devices" -> SyncDevicesStep(DeviceFaults)
    [] op = "students" -> StudentsReturn(StudentFaults)
    [] op = "content" -> ContentReturn(ContentFaults, {1}, {})
    [] op = "analytics" -> AnalyticsReturn(PushOutcomes)

\* C17: once the payload is in, all four sub-operations are started; the run
\* completes only when all four have settled; whatever the others have
\* settled with, and in whatever order, a sub-operation that has not
\* returned can still return, its outcome is one its own store and list
\* allow, and the outcomes already in are left as they are.
C17_FanOut ==
  [][/\ (pc = "fetching" /\ pc' = "reconciling") => pending' = Ops
     /\ RunCompletes => (pending = {} /\ DOMAIN settled = Ops)
     /\ pc = "reconciling" => \A op \in pending : ENABLED Returns(op)
     /\ \A op \in Ops : Settles(op) =>
          /\ pending' = pending \ {op}
          /\ \A o \in DOMAIN settled : settled'[o] = settled[o]
          /\ \A o \in Ops \ {op} : StoreOf(o)' = StoreOf(o)
          /\ \E r \in OwnOutcomes(op) :
               /\ settled'[op] = Settle(r.result)
               /\ StoreOf(op)' = r.store]_vars

\* C17 witness: the upload and the Content Reconciler have failed first, the
\* Device Reconciler has then applied its record, the Student Reconciler is
\* still running
C17_Witness ==
  /\ pc = "reconciling" /\ pending = {"students"}
  /\ ~settled["analytics"].value.success
  /\ ~settled["content"].value.success
  /\ settled["devices"].value.success /\ settled["devices"].value.count = 1

\* The clock ticks once per started run, so the k-th result of the history
\* is the result of the run of time k: the time of the most recent run
\* classified Success, 0 when no run succeeded.
MostRecentSuccess ==
  LET succeeded == {k \in 1..Len(syncHistory) : syncHistory[k].success}
  IN  IF succeeded = {} THEN 0
      ELSE CHOOSE k \in succeeded : \A j \in succeeded : j <= k

\* C18: the fetch of a run started by the scheduler or by a plain call of
\* performSync carries since = the time of the most recent run classified
\* Success and omits it when no earlier run succeeded; the fetch of a run
\* started by forceSyncNow or forceFullSync omits it.
C18_SinceIsLastSuccess ==
  [][RunStarts =>
       /\ (ScheduledSyncWithin(MaxQuietRuns) \/ PerformSync) =>
            since' = MostRecentSuccess
       /\ (ForceSyncNow \/ ForceFullSync) => since' = 0]_vars

\* the runs classified Success are fewer than four fifths of the runs started
LowSuccessRate == 5 * syncStats.successfulSyncs < 4 * syncStats.totalSyncs

\* C19: in every state getHealthStatus returns critical exactly when
\* consecutiveFailures >= 5; below 5 it returns warning exactly when
\* consecutiveFailures >= 2 or the success rate is below 80%, and healthy
\* otherwise; before the first run it returns healthy.
C19_HealthStatus ==
  LET health == GetHealthStatus(SyncStatus).status
  IN  /\ health \in {"critical", "warning", "healthy"}
      /\ health = "critical" <=> consecutiveFailures >= 5
      /\ health = "warning" <=>
            (consecutiveFailures < 5 /\ (consecutiveFailures >= 2 \/ LowSuccessRate))
      /\ syncStats.totalSyncs = 0 => health = "healthy"

\* C19 witness: four runs succeeded and a fifth failed, a rate of exactly
\* 80% after one failure
C19_Witness ==
  /\ pc = "idle"
  /\ syncStats.totalSyncs = 5 /\ syncStats.successfulSyncs = 4
  /\ consecutiveFailures = 1
  /\ GetHealthStatus(SyncStatus).status = "healthy"

\* the runs that have ended
EndedRuns == syncStats.totalSyncs - (IF syncInProgress THEN 1 ELSE 0)

C21_RunEnds ==
  /\ [](pc = "idle" => ~syncInProgress)
  /\ syncInProgress ~> (~syncInProgress /\ pc = "idle")

\* C21 witness: a run classified Success and a run that failed have both
\* ended and the flag is down
C21_Witness ==
  /\ pc = "idle" /\ ~syncInProgress
  /\ syncStats.successfulSyncs = 1 /\ syncStats.failedSyncs = 1
  /\ Len(syncHistory) = 2

\* C22 as claimed: no step of registerDevice, autoRegisterDevice, the
\* heartbeat or a sync gives a device whose registeredAt is set another
\* registeredAt.
C22_RegisteredAtSetOnce ==
  [][\A r \in devices : r.registeredAt # 0 =>
       \A x \in devices' :
         x.deviceCode = r.deviceCode => x.registeredAt = r.registeredAt]_vars

\* the records of the device batch that the run has written to the store
\* (a row written by the run carries the time of the run)
AppliedDevices ==
  {i \in 1..Len(syncData.devices) :
     \E x \in devices' : /\ x.deviceCode = syncData.devices[i].deviceCode
                          /\ x.updatedAt = now /\ x.synced}

\* the records of the student batch that the run has written to the store
AppliedStudents ==
  {i \in 1..Len(syncData.students) :
     \E x \in students' : /\ x.studentCode = syncData.students[i].studentCode
                           /\ x.updatedAt = now /\ x.synced}

\* C23 as claimed: the count of the device and of the student sub-result is
\* the number of records of the batch that were inserted or updated, also
\* when the removal or deactivation of the absent rows fails, which shows in
\* errors only.
C23_CountIsApplied ==
  [][/\ Settles("devices") =>
          settled'["devices"].value.count = Cardinality(AppliedDevices)
     /\ Settles("students") =>
          settled'["students"].value.count = Cardinality(AppliedStudents)]_vars

C25_SoleWriter ==
  [][/\ (\E r \in content : r \notin content') =>
          (Settles("content") /\ syncData.content # << >>)
     /\ (\E a \in activities : a \notin activities') =>
          Settles("analytics")]_vars

\* the content rows without remote id
Orphaned == {r \in content : r.cloudId = 0}

\* C26 as claimed: on whatever store the process starts, the integrity
\* check reports unhealthy exactly when the store holds no content row or
\* more than 10% of its content rows have no cloudId, and the bootstrap
\* schedules the forced full sync exactly when the check is unhealthy and
\* the store holds no content row.
C26_IntegrityCheck ==
  \A outcome \in IntegrityQueryOutcomes :
    LET check == CheckDatabaseIntegrityOnStartup(content, outcome)
        empty == Cardinality(content) = 0
    IN  /\ ~check.isHealthy <=>
             (empty \/ 10 * Cardinality(Orphaned) > Cardinality(content))
        /\ SchedulesFullSync(check) <=> (~check.isHealthy /\ empty)

\* the device codes logged as a conflict by a device step that succeeds:
\* cleanupRemovedDevices reads the store that syncDevicesFromCloud has left
FlaggedDevices ==
  {r.deviceCode : r \in RecentlyActiveDevices(
      SyncDevicesFromCloud(devices, syncData.devices, "none", now).store,
      syncData.devices, now)}

\* the student codes logged as a conflict by a student step that succeeds
FlaggedStudents ==
  {r.studentCode : r \in RecentlyActiveStudents(
      SyncStudentsFromCloud(students, syncData.students, "none", now).store,
      syncData.students, now)}

\* C27 as claimed: when the device (student) step of a run succeeds on a
\* non-empty batch, a stored device (student) absent from the batch is
\* logged as a sync conflict exactly when its lastSeen (updatedAt) is less
\* than 24 hours before the run, and it is removed or inactive afterwards
\* either way.
C27_ConflictFlagged ==
  [][/\ (Settles("devices") /\ settled'["devices"].value.success
                            /\ syncData.devices # << >>) =>
          \A r \in devices : r.deviceCode \notin DeviceCodes(syncData.devices) =>
            /\ r.deviceCode \in FlaggedDevices <=>
                 (r.lastSeen # 0 /\ now - r.lastSeen < ConflictWindow)
            /\ \A x \in devices' :
                 x.deviceCode = r.deviceCode => x.status = "inactive"
     /\ (Settles("students") /\ settled'["students"].value.success
                             /\ syncData.students # << >>) =>
          \A r \in students : r.studentCode \notin StudentCodes(syncData.students) =>
            /\ r.studentCode \in FlaggedStudents <=>
                 (now - r.updatedAt < ConflictWindow)
            /\ \A x \in students' :
                 x.studentCode = r.studentCode => x.status = "inactive"]_vars

\* C28 as claimed: for a valid non-empty batch, whatever items fail, when
\* processBatch has processed at least one item (inserted, updated or
\* skipped as up to date) the content sub-result is success=true with
\* count = the number of items processed, whether the cleanup that follows
\* removes rows, is stopped by the safety gate, or fails.
C28_ContentResult ==
  (/\ pc = "reconciling" /\ "content" \in pending
   /\ syncData.content # << >>
   /\ ValidateContentData(syncData.content).isValid) =>
    \A fault \in {"none", "cleanup"} :
    \A failed \in SUBSET (1..Len(syncData.content)) :
      LET p == ProcessSlices(content, syncData.content, 1, failed, {}, now,
                             [processed |-> 0, errors |-> NoErrors])
          r == SyncContent(content, syncData.content, fault, failed, {}, now).result
      IN  p.processed > 0 => (r.success /\ r.count = p.processed)

\* the sets of up to two items of the batch of the run
FewItems ==
  {f \in SUBSET (1..Len(syncData.content)) : Cardinality(f) <= 2}

\* C29: for a batch of more than batchSize items, whichever items fail:
\* every other item, of the same slice and of the later one, is stored
\* afterwards at least as new as the remote record; the row of an item that
\* failed is as it was; errors holds one string per failed item; and count
\* is the number of items that did not fail.
C29_ItemIsolation ==
  (/\ pc = "reconciling" /\ "content" \in pending
   /\ Len(syncData.content) > batchSize) =>
    \A failed \in FewItems :
      LET batch == syncData.content
          r == SyncContent(content, batch, "none", failed, {}, now)
      IN  /\ r.result.count = Len(batch) - Cardinality(failed)
          /\ Len(r.result.errors) = Cardinality(failed)
          /\ r.result.success
          /\ \A i \in (1..Len(batch)) \ failed :
               \E x \in r.store : /\ x.cloudId = batch[i].id
                                   /\ x.title = batch[i].title
                                   /\ StoredStamp(x) >= batch[i].updatedAt
          /\ \A i \in failed :
               {x \in r.store : x.cloudId = batch[i].id} =
               {x \in content : x.cloudId = batch[i].id}

\* C29 witness: the content step of a run has stored the first item of the
\* second slice after the first item of the first slice had failed
C29_Witness ==
  /\ pc = "reconciling" /\ "content" \notin pending
  /\ Len(syncData.content) > batchSize
  /\ settled["content"].value.count = Len(syncData.content) - 1
  /\ Len(settled["content"].value.errors) = 1
  /\ \A x \in content : x.cloudId # 1
  /\ \E x \in content : x.cloudId = batchSize + 1

(***************************************************************************)
(* The in-memory content cache (ContentCacheService).                      *)
(***************************************************************************)
\* capacity of the Map (line 52)
maxCacheSize == 100

\* rows the store holds beyond the capacity of the cache
MaxCacheExtra == 1

\* the ids 1..MaxReread are asked for again at any time
MaxReread == 1

\* the keys of the Map
CachedKeys == {memoryCache[i].key : i \in DOMAIN memoryCache}

\* getContent (lines 42-62): a hit returns the cached value and leaves the
\* Map as it is; a miss reads the store and, when a row is found, deletes
\* the first key of a full Map before setting the new one at its end
GetContent(id) ==
  /\ IF id \in CachedKeys
     THEN /\ cacheRet' = (CHOOSE e \in Range(memoryCache) : e.key = id).value
          /\ UNCHANGED memoryCache
     ELSE LET found == {r \in content : r.cloudId = id}
          IN  IF found = {}
              THEN /\ cacheRet' = Null
                   /\ UNCHANGED memoryCache
              ELSE \E r \in found :
                     /\ memoryCache' =
                          Append(IF Len(memoryCache) >= maxCacheSize
                                 THEN Tail(memoryCache) ELSE memoryCache,
                                 [key |-> id, value |-> r])
                     /\ cacheRet' = r
  /\ UNCHANGED <<orch, stores, run, now, ret, delivered, edge>>

\* the rows a run over a batch of more records than the cache holds has
\* left in the database
StoredContent ==
  {ContentRow(i, i, 1, 1, 1) : i \in 1..(maxCacheSize + MaxCacheExtra)}

\* the state after construction over that database: the fields of the
\* services are in memory and start anew, the rows persist
InitCache ==
  /\ syncInProgress = FALSE
  /\ lastSyncTime = 0
  /\ lastSuccessfulSync = 0
  /\ consecutiveFailures = 0
  /\ syncStats = [totalSyncs |-> 0, successfulSyncs |-> 0, failedSyncs |-> 0,
                  partialSyncs |-> 0]
  /\ lastSyncResult = Null
  /\ syncHistory = << >>
  /\ content = StoredContent
  /\ devices = {} /\ students = {} /\ activities = {}
  /\ now = 1
  /\ pc = "idle" /\ since = 0 /\ syncData = NoPayload
  /\ pending = {} /\ settled = [o \in {} |-> Null]
  /\ ret = Null
  /\ memoryCache = << >> /\ cacheRet = Null
  /\ delivered = NoDeliveries
  /\ calls = NoCalls /\ attempts = NoAttempts

\* the ids asked for: the id after the one cached last, and the first ids
\* again at any time
ReadIds ==
  LET next == IF memoryCache = << >> THEN 1
              ELSE memoryCache[Len(memoryCache)].key + 1
  IN  {id \in 1..(maxCacheSize + MaxCacheExtra) :
         id <= MaxReread \/ id = next}

\* readers of the cache
NextCache == \E id \in ReadIds : GetContent(id)

SpecCache == InitCache /\ [][NextCache]_vars

\* the key a step deletes from the Map
Evicted == CachedKeys \ {memoryCache'[i].key : i \in DOMAIN memoryCache'}

\* C30: LRU eviction.  When an insertion finds the cache full, the entry it
\* evicts is not the entry getContent returned last while other entries,
\* returned longer ago, are in the cache.
C30_LeastRecentlyReturned ==
  [][\A k \in Evicted :
       (Len(memoryCache) > 1 /\ cacheRet # Null) => cacheRet.cloudId # k]_vars


(***************************************************************************)
(* Incremental fetches against a remote that answers differentially.       *)
(***************************************************************************)
\* records of each kind the remote holds, none of them ever deleted there
MaxRemote == 2

RemoteContent  == FirstRecords(MaxRemote)
RemoteDevices  ==
  [i \in 1..MaxRemote |-> [deviceCode |-> i, name |-> 1, status |-> "active"]]
RemoteStudents ==
  [i \in 1..MaxRemote |-> [studentCode |-> i, name |-> 1, status |-> "active"]]

\* the records of a list at the positions of keep, in the order of the list
RECURSIVE Pick(_, _, _)
Pick(list, keep, i) ==
  IF i > Len(list) THEN << >>
  ELSE (IF i \in keep THEN <<list[i]>> ELSE << >>) \o Pick(list, keep, i + 1)

\* the answers to the fetch of lines 107-111: without since the remote sends
\* every record it holds, with since the records changed after that time,
\* which may be any of them
DifferentialPayloads(s) ==
  IF s = 0
  THEN {[content |-> RemoteContent, devices |-> RemoteDevices,
         students |-> RemoteStudents, nulls |-> {}]}
  ELSE {[content |-> Pick(RemoteContent, kc, 1), devices |-> Pick(RemoteDevices, kd, 1),
         students |-> Pick(RemoteStudents, ks, 1), nulls |-> {}] :
          kc \in SUBSET (1..MaxRemote), kd \in SUBSET (1..MaxRemote),
          ks \in SUBSET (1..MaxRemote)}

\* scheduled runs against that remote, no fault but a fetch that times out
NextDifferential ==
  \/ ScheduledSync
  \/ FetchResponse(DifferentialPayloads(since), {"timeout"})
  \/ SyncDevicesStep({"none"})
  \/ SyncStudentsStep({"none"})
  \/ SyncContentStep({"none"}, {}, {})
  \/ SyncAnalyticsStep({"ok"})
  \/ CompleteRun

SpecDifferential == Init /\ [][NextDifferential]_vars

\* C31: Differential payloads.  In a run that fetched with since, no content
\* row, device or student whose record the remote still holds is deleted,
\* and no such device or student is made inactive.
C31_DifferentialKeepsUnchanged ==
  [][(pc = "reconciling" /\ since # 0) =>
       /\ \A r \in content :
            r.cloudId \in 1..MaxRemote =>
              \E x \in content' : x.cloudId = r.cloudId
       /\ \A r \in devices :
            r.deviceCode \in 1..MaxRemote =>
              \E x \in devices' : /\ x.deviceCode = r.deviceCode
                                  /\ r.status # "inactive" => x.status # "inactive"
       /\ \A r \in students :
            r.studentCode \in 1..MaxRemote =>
              \E x \in students' : /\ x.studentCode = r.studentCode
                                   /\ r.status # "inactive" => x.status # "inactive"]_vars


(***************************************************************************)
(* The two uploaders of activity rows.                                     *)
(***************************************************************************)
\* how uploadActivityLogs ends: the post fails; or the post is accepted and
\* markActivitiesAsSynced (part_009 lines 51-56) asks for id = {$in: ids},
\* an operator of the MongoDB driver, which SQLite matches with no row or
\* the driver rejects
LegacyUploadOutcomes == {"post_failed", "no_match", "throws"}

\* SyncService.uploadActivityLogs (sync.service.ts lines 38-67), the first
\* step of the hourly job: it pushes the rows that are unsynced and asks
\* for no flag
UploadActivityLogs(outcomes) ==
  /\ Unsynced(activities) # {}
  /\ \E outcome \in outcomes :
       delivered' = IF outcome = "post_failed" THEN delivered
                    ELSE Deliver(delivered, Unsynced(activities))
  /\ UNCHANGED <<orch, stores, run, now, ret, cache, edge>>

\* scheduled runs over empty lists, the upload ending in any way
NextPushes ==
  \/ ScheduledSync
  \/ FetchResponse({NoPayload}, {"timeout"})
  \/ SyncDevicesStep({"none"})
  \/ SyncStudentsStep({"none"})
  \/ SyncContentStep({"none"}, {}, {})
  \/ SyncAnalyticsStep(PushOutcomes)
  \/ CompleteRun
  \/ RecordActivity

SpecPushes == Init /\ [][NextPushes]_vars

\* the same with the hourly job of SyncService alongside
NextUploads ==
  \/ NextPushes
  \/ UploadActivityLogs(LegacyUploadOutcomes)

SpecUploads == Init /\ [][NextUploads]_vars

\* C32: At most once.  No activity row that was part of a push the cloud
\* accepted is part of a later push the cloud accepts.
C32_DeliveredOnce == delivered.again = {}


(***************************************************************************)
(* The statistics under resetSyncStats.                                    *)
(***************************************************************************)
\* resetSyncStats is called while the clock is below this time
MaxResetTime == 3

\* resetSyncStats (lines 659-672): it asks for no flag
ResetSyncStats ==
  /\ syncStats' = [totalSyncs |-> 0, successfulSyncs |-> 0, failedSyncs |-> 0,
                   partialSyncs |-> 0]
  /\ consecutiveFailures' = 0
  /\ syncHistory' = << >>
  /\ lastSyncResult' = Null
  /\ UNCHANGED <<syncInProgress, lastSyncTime, lastSuccessfulSync, stores, run,
                 now, ret, cache, delivered, edge>>

\* a call of resetSyncStats before the time limit
ResetSyncStatsBefore(limit) ==
  /\ now < limit
  /\ ResetSyncStats

\* the payloads of the runs whose statistics are reset
ResetPayloads == {NoPayload, [NoPayload EXCEPT !.content = OneContent]}

\* every entry point, a fetch that may time out, and resetSyncStats at any
\* moment before MaxResetTime
NextReset ==
  \/ ScheduledSync
  \/ PerformSync
  \/ ForceSyncNow
  \/ FetchResponse(ResetPayloads, {"timeout"})
  \/ SyncDevicesStep({"none"})
  \/ SyncStudentsStep({"none"})
  \/ SyncContentStep({"none", "count"}, {}, {})
  \/ SyncAnalyticsStep({"ok"})
  \/ CompleteRun
  \/ ResetSyncStatsBefore(MaxResetTime)

SpecReset == Init /\ [][NextReset]_vars

\* the runs that have been counted as ended
EndedSyncs ==
  syncStats.successfulSyncs + syncStats.failedSyncs + syncStats.partialSyncs

\* C33: Statistics.  The runs counted as ended are never more than the runs
\* counted as started, and are as many whenever no run is in flight; hence
\* successfulSyncs never exceeds totalSyncs.
C33_StatsConsistent ==
  /\ EndedSyncs <= syncStats.totalSyncs
  /\ ~syncInProgress => EndedSyncs = syncStats.totalSyncs
  /\ syncStats.successfulSyncs <= syncStats.totalSyncs


(***************************************************************************)
(* Concurrent requests of autoRegisterDevice.                              *)
(***************************************************************************)
\* DevicesService.autoRegisterDevice up to its first await (part_007 lines
\* 50-62): the findOne of the oldest pending, never registered row; without
\* one the request ends with the NotFoundException
AutoRegisterFind(c) ==
  /\ calls[c].at = "idle"
  /\ LET available == {r \in devices : r.status = "pending" /\ r.registeredAt = 0}
         oldest == {r \in available : \A x \in available : r.cachedAt <= x.cachedAt}
     IN  IF available = {}
         THEN calls' = [calls EXCEPT ![c] = [@ EXCEPT !.at = "no_codes"]]
         ELSE \E r \in oldest :
                calls' = [calls EXCEPT ![c] = [@ EXCEPT !.at = "found", !.found = r]]
  /\ UNCHANGED <<orch, stores, run, now, ret, cache, delivered, attempts>>

\* the rest of it (lines 64-73): the row that was found is saved as active
\* and returned to the caller
AutoRegisterSave(c) ==
  /\ calls[c].at = "found"
  /\ LET r == calls[c].found
     IN  /\ devices' = {x \in devices : x.deviceCode # r.deviceCode} \cup
                         {[r EXCEPT !.status = "active", !.registeredAt = now,
                                    !.lastSeen = now, !.updatedAt = now]}
         /\ calls' = [calls EXCEPT ![c] = [@ EXCEPT !.at = "done", !.code = r.deviceCode]]
  /\ UNCHANGED <<orch, content, students, activities, run, now, ret, cache,
                 delivered, attempts>>

\* the device codes the administrator has created in the cloud
PendingCodes ==
  {[NoPayload EXCEPT !.devices =
      [i \in 1..n |-> [deviceCode |-> i, name |-> 1, status |-> "pending"]]] :
     n \in 1..MaxDevice}

\* scheduled runs that bring the codes, and the requests of MaxCaller
\* callers, each served up to an await at a time
NextRegistration ==
  \/ ScheduledSync
  \/ FetchResponse(PendingCodes, {"timeout"})
  \/ SyncDevicesStep({"none"})
  \/ SyncStudentsStep({"none"})
  \/ SyncContentStep({"none"}, {}, {})
  \/ SyncAnalyticsStep({"ok"})
  \/ CompleteRun
  \/ \E c \in Callers : AutoRegisterFind(c)
  \/ \E c \in Callers : AutoRegisterSave(c)

SpecRegistration == Init /\ [][NextRegistration]_vars

\* C34: Exclusive codes.  No two requests of autoRegisterDevice are answered
\* with the same device code.
C34_CodesExclusive ==
  \A c, d \in Callers :
    (c # d /\ calls[c].at = "done" /\ calls[d].at = "done") =>
      calls[c].code # calls[d].code


\* C35: Empty list.  While a run whose devices list is empty reconciles, no
\* step changes the device store, and its devices step returns
\* {success:true, count:0} without errors; likewise for the students list
\* and the student store.
C35_EmptyListIsSkipped ==
  [][/\ (pc = "reconciling" /\ syncData.devices = << >>) =>
          /\ devices' = devices
          /\ Settles("devices") =>
               settled'["devices"] = Settle(Detail(TRUE, 0, NoErrors))
     /\ (pc = "reconciling" /\ syncData.students = << >>) =>
          /\ students' = students
          /\ Settles("students") =>
               settled'["students"] = Settle(Detail(TRUE, 0, NoErrors))]_vars

\* C35 witness: the devices step and the students step of a run with both
\* lists empty have returned, and the stores hold the rows of the run before
C35_Witness ==
  /\ pc = "reconciling"
  /\ syncData.devices = << >> /\ syncData.students = << >>
  /\ "devices" \notin pending /\ "students" \notin pending
  /\ devices # {} /\ students # {}


(***************************************************************************)
(* Content rows without cloudId.                                           *)
(***************************************************************************)
\* the lists the hourly job downloads: cacheContent (part_009 lines 63-66)
\* takes cloudId from item.id without validation, so a record without id
\* (id 0) becomes a row without cloudId
UnvalidatedLists ==
  SeqsUpTo([id : 0..MaxBatch, title : {1}, updatedAt : {1}], MaxBatch)

\* the orchestrator's runs with any fault of the content step, and the
\* hourly job
NextOrphans ==
  \/ ScheduledSync
  \/ FetchResponse(UnchangingPayloads, {"timeout"})
  \/ SyncDevicesStep({"none"})
  \/ SyncStudentsStep({"none"})
  \/ SyncContentStep(ContentFaults, 1..MaxBatch, 1..MaxBatch)
  \/ SyncAnalyticsStep({"ok"})
  \/ CompleteRun
  \/ LegacySyncWithCloud(UnvalidatedLists)

SpecOrphans == Init /\ [][NextOrphans]_vars

\* the rows the cleanup of a batch has to keep
KeptByCleanup(rows, batch) ==
  {r \in rows : r.cloudId = 0 \/ r.cloudId \in BatchIds(batch)}

\* C36: Cleanup scope.  However the content step of a run ends, every row
\* of the store that has no cloudId or whose cloudId is in the batch is in
\* the store afterwards, and so is every such row among those the upserts
\* of the step have inserted or updated.
C36_CleanupScope ==
  (pc = "reconciling" /\ "content" \in pending) =>
    \A fault \in ContentFaults :
    \A failed, late \in SUBSET (1..Len(syncData.content)) :
      LET batch == syncData.content
          r == SyncContent(content, batch, fault, failed, late, now)
          p == ProcessSlices(content, batch, 1, failed, late, now,
                             [processed |-> 0, errors |-> NoErrors])
      IN  /\ \A x \in KeptByCleanup(content, batch) :
               \E y \in r.store : y.id = x.id /\ y.cloudId = x.cloudId
          /\ (batch # << >> /\ ValidateContentData(batch).isValid /\ fault # "count") =>
               KeptByCleanup(p.store, batch) \subseteq r.store

\* C36 witness: the content step of a run is due on a store that holds a
\* row without cloudId and a row the batch does not list, the batch carries
\* an id the store does not hold, and the cleanup deletes
C36_Witness ==
  /\ pc = "reconciling" /\ "content" \in pending
  /\ Orphaned # {}
  /\ BatchIds(syncData.content) \ {r.cloudId : r \in content} # {}
  /\ LET r == SyncContent(content, syncData.content, "none", {}, {}, now)
     IN  /\ \E x \in content : \A y \in r.store : y.id # x.id
         /\ \E y \in r.store : y \notin content


(***************************************************************************)
(* The writers of the activity store.                                      *)
(***************************************************************************)
\* HubAnalyticsService.cleanupOldData (part_004 lines 328-345): of the rows
\* older than the cutoff, here any rows, those with synced = true are deleted
CleanupOldData ==
  /\ \E old \in SUBSET activities :
       activities' = activities \ {a \in old : a.synced}
  /\ UNCHANGED <<orch, content, devices, students, run, now, ret, cache,
                 delivered, edge>>

\* The bodies of POST hub/activity.  No pipe filters the body, so besides the
\* fields of UploadActivityDto it may name an id (0 = none) and synced.
ActivityBodies == [id : 0..MaxActivity, synced : {"absent", "true", "false"}]

\* the fields of UploadActivityDto alone
DtoBodies == {b \in ActivityBodies : b.id = 0 /\ b.synced = "absent"}

\* HubService.saveActivityLog (part_009 lines 40-43): create(body) and
\* save().  save() of an entity whose id names a stored row updates that
\* row with the columns the body carries, otherwise it inserts.
SaveActivityLog(bodies) ==
  /\ \E b \in bodies :
       LET flag == b.synced = "true"
       IN  IF \E a \in activities : a.id = b.id
           THEN activities' =
                  {IF a.id = b.id /\ b.synced # "absent"
                   THEN [a EXCEPT !.synced = flag] ELSE a : a \in activities}
           ELSE /\ Cardinality(activities) < MaxActivity
                /\ activities' = activities \cup
                     {[id |-> IF b.id # 0 THEN b.id ELSE Cardinality(activities) + 1,
                       synced |-> flag]}
  /\ UNCHANGED <<orch, content, devices, students, run, now, ret, cache,
                 delivered, edge>>

\* scheduled runs whose upload ends in any way, the hourly uploader, the
\* cleanup and the requests of the clients
NextActivities ==
  \/ ScheduledSync
  \/ FetchResponse({NoPayload}, {"timeout"})
  \/ SyncDevicesStep({"none"})
  \/ SyncStudentsStep({"none"})
  \/ SyncContentStep({"none"}, {}, {})
  \/ SyncAnalyticsStep(PushOutcomes)
  \/ CompleteRun
  \/ RecordActivity
  \/ UploadActivityLogs(LegacyUploadOutcomes)
  \/ CleanupOldData
  \/ SaveActivityLog(ActivityBodies)

SpecActivities == Init /\ [][NextActivities]_vars

\* C37: Activity rows.  No step removes an activity row whose synced flag
\* is false, and no step takes the synced flag of a row from true to false.
C37_ActivitiesKept ==
  [][\A a \in activities :
       /\ ~a.synced => \E b \in activities' : b.id = a.id
       /\ a.synced => \A b \in activities' : b.id = a.id => b.synced]_vars


(***************************************************************************)
(* The cache beside the runs that write the store.                         *)
(***************************************************************************)
\* content lists of a remote that publishes record 1, revises it, and
\* replaces it by record 2
RevisedPayloads ==
  {[NoPayload EXCEPT !.content = <<[id |-> 1, title |-> 1, updatedAt |-> 1]>>],
   [NoPayload EXCEPT !.content = <<[id |-> 1, title |-> MaxTitle, updatedAt |-> MaxStamp]>>],
   [NoPayload EXCEPT !.content = <<[id |-> 2, title |-> 1, updatedAt |-> 1]>>]}

\* scheduled runs over these lists and readers of the cache at any moment;
\* no step of a run calls invalidateCache
NextCoherence ==
  \/ ScheduledSync
  \/ FetchResponse(RevisedPayloads, {"timeout"})
  \/ SyncDevicesStep({"none"})
  \/ SyncStudentsStep({"none"})
  \/ SyncContentStep({"none"}, {}, {})
  \/ SyncAnalyticsStep({"ok"})
  \/ CompleteRun
  \/ \E id \in 1..MaxCloudId : GetContent(id)

SpecCoherence == Init /\ [][NextCoherence]_vars

\* C38: Cache coherence.  Every call of getContent returns the row the
\* store holds for that cloudId at the time of the call, or nothing when it
\* holds none.
C38_CacheCoherent ==
  [][\A id \in 1..MaxCloudId :
       GetContent(id) => cacheRet' = FindByCloudId(content, id)]_vars


(***************************************************************************)
(* Rate limiter.  Times are minutes; attempts maps an identifier to its    *)
(* entry [attempts, firstAttempt, blockedUntil], blockedUntil 0 = none.    *)
(***************************************************************************)
\* lines 16-18
maxAttempts == 10
windowMinutes == 10
blockDurationMinutes == 15

\* the clock of the requests advances by this many minutes, up to MaxMinutes
TickMinutes == 5
MaxMinutes == 30

\* the identifier of the one client whose requests are followed
ClientId == "client"

Without(map, id) == [k \in DOMAIN map \ {id} |-> map[k]]
With(map, id, e) == [k \in DOMAIN map \cup {id} |-> IF k = id THEN e ELSE map[k]]

\* isRateLimited (lines 31-71): the answer and the Map afterwards
IsRateLimited(map, id, t) ==
  IF id \notin DOMAIN map
  THEN [isLimited |-> FALSE, remainingAttempts |-> maxAttempts, map |-> map]
  ELSE LET entry == map[id]
       IN  IF entry.blockedUntil # 0 /\ t < entry.blockedUntil
           THEN [isLimited |-> TRUE, remainingAttempts |-> 0, map |-> map]
           ELSE IF t > entry.firstAttempt + windowMinutes
           THEN [isLimited |-> FALSE, remainingAttempts |-> maxAttempts,
                 map |-> Without(map, id)]
           ELSE IF entry.attempts >= maxAttempts
           THEN [isLimited |-> TRUE, remainingAttempts |-> 0,
                 map |-> With(map, id, [entry EXCEPT !.blockedUntil =
                                                       t + blockDurationMinutes])]
           ELSE [isLimited |-> FALSE,
                 remainingAttempts |-> maxAttempts - entry.attempts, map |-> map]

\* recordAttempt (lines 76-114): the Map afterwards
RecordAttempt(map, id, success, t) ==
  LET found == IF id \in DOMAIN map THEN map[id]
               ELSE [attempts |-> 0, firstAttempt |-> t, blockedUntil |-> 0]
      entry == IF t > found.firstAttempt + windowMinutes
               THEN [attempts |-> 0, firstAttempt |-> t, blockedUntil |-> 0]
               ELSE found
  IN  IF success THEN Without(map, id)
      ELSE With(map, id,
                [entry EXCEPT !.attempts = @ + 1,
                              !.blockedUntil = IF entry.attempts + 1 >= maxAttempts
                                               THEN t + blockDurationMinutes
                                               ELSE @])

\* A request of registerDevice, autoRegisterDevice or authenticateStudent up
\* to its await (devices.controller.ts lines 65-78, students.service.ts
\* lines 362-376): the limit is asked; a limited request ends with 429, any
\* other goes on to the service
CheckRateLimit(c) ==
  /\ calls[c].at = "idle"
  /\ LET check == IsRateLimited(attempts, ClientId, now)
     IN  /\ attempts' = check.map
         /\ calls' = [calls EXCEPT ![c] =
                        [@ EXCEPT !.at = IF check.isLimited THEN "limited" ELSE "serving"]]
  /\ UNCHANGED <<orch, stores, run, now, ret, cache, delivered>>

\* the rest of the request (devices.controller.ts lines 80-105,
\* students.service.ts lines 378-403): the service has answered and the
\* outcome is recorded
RecordOutcome(c, success) ==
  /\ calls[c].at = "serving"
  /\ attempts' = RecordAttempt(attempts, ClientId, success, now)
  /\ calls' = [calls EXCEPT ![c] = [@ EXCEPT !.at = "idle"]]
  /\ UNCHANGED <<orch, stores, run, now, ret, cache, delivered>>

\* the client reads the 429 and may ask again
Rejected(c) ==
  /\ calls[c].at = "limited"
  /\ calls' = [calls EXCEPT ![c] = [@ EXCEPT !.at = "idle"]]
  /\ UNCHANGED <<orch, stores, run, now, ret, cache, delivered, attempts>>

\* time passes
Tick ==
  /\ now + TickMinutes <= MaxMinutes
  /\ now' = now + TickMinutes
  /\ UNCHANGED <<orch, stores, run, ret, cache, delivered, edge>>

\* the requests of one client, MaxCaller of them at a time
NextLimiter ==
  \/ \E c \in Callers : CheckRateLimit(c)
  \/ \E c \in Callers : \E success \in BOOLEAN : RecordOutcome(c, success)
  \/ \E c \in Callers : Rejected(c)
  \/ Tick

SpecLimiter == Init /\ [][NextLimiter]_vars

\* the identifier is blocked at time t
Blocked(map, id, t) ==
  id \in DOMAIN map /\ map[id].blockedUntil # 0 /\ t < map[id].blockedUntil

\* C39: Rate limiter.  The step that records the tenth failure of a window
\* blocks the identifier for blockDurationMinutes; from then until the end of
\* the block isRateLimited reports it limited, whatever else happens; an
\* identifier whose record counts fewer than maxAttempts failures is not
\* reported limited; and after the step that records a success the
\* identifier is not limited and has maxAttempts remaining attempts.
C39_LimiterContract ==
  [][ /\ ( /\ ClientId \in DOMAIN attempts'
           /\ attempts'[ClientId].attempts >= maxAttempts
           /\ ~ (ClientId \in DOMAIN attempts /\ attempts[ClientId].attempts >= maxAttempts) )
         => attempts'[ClientId].blockedUntil = now + blockDurationMinutes
      /\ ( Blocked(attempts, ClientId, now) /\ now' < attempts[ClientId].blockedUntil )
         => IsRateLimited(attempts', ClientId, now').isLimited
      /\ ( ClientId \in DOMAIN attempts /\ attempts[ClientId].attempts < maxAttempts )
         => ~ IsRateLimited(attempts, ClientId, now).isLimited
      /\ \A c \in Callers :
           RecordOutcome(c, TRUE)
             => LET check == IsRateLimited(attempts', ClientId, now')
                IN  ~ check.isLimited /\ check.remainingAttempts = maxAttempts
    ]_vars

\* C40: Concurrent requests of one identifier.  The record of the identifier
\* never counts more than maxAttempts failures in one window: once
\* maxAttempts failed requests have reached the service, no further request
\* of that window reaches it.
C40_AtMostMaxAttempts ==
  \A id \in DOMAIN attempts : attempts[id].attempts <= maxAttempts

=============================================================================
